---- MODULE Spec2Model ----
(***************************************************************************)
(* A model of XcelSQL's query translation layers: the sheet-name mapper   *)
(* (utils/excel_utils.py), the query validator, placeholder resolver and  *)
(* parameter substitutor (core/sql_engine.py) and the interactive         *)
(* session's query path (cli/repl.py).                                    *)
(*                                                                         *)
(* Text is modelled as a sequence of characters, each character a string  *)
(* of length one; two characters that are not ASCII are named NonAsciiUp  *)
(* and NonAsciiLow.                                                        *)
(***************************************************************************)
EXTENDS Integers, Sequences, FiniteSets, TLC

VARIABLES
  name_map,       \* SheetTableMapper.name_map: sheet name -> table name
  reverse_map,    \* SheetTableMapper.reverse_map: table name -> sheet name
  counter,        \* SheetTableMapper.counter
  ret,            \* what the last mapper call returned
  call,           \* the last mapper call: its method and its argument
  query,          \* the query text given to the pipeline
  strict,         \* the strict flag of the last call
  params,         \* the parameters: a sequence of <<key, value>> in dict order
  outcome,        \* the result of the last pipeline call
  stages,         \* the pipeline stages the last call ran, in order
  all_sheets,     \* Session.all_sheets
  sheet_data,     \* the keys of sheet_data (the call's or the Session's), in order
  orig_to_alias,  \* Session._orig_to_alias
  engine,         \* the SQL texts handed to the query engine, in order
  CUSTOM_FUNCTIONS,     \* expr_eval._CUSTOM_FUNCTIONS: name -> function
  ALLOW_EVAL_FALLBACK,  \* expr_eval._ALLOW_EVAL_FALLBACK
  expr,           \* the expression given to the evaluator
  row_data,       \* the row given to the evaluator: column -> value
  result,         \* what the last evaluator call returned or raised
  attempts,       \* the evaluators the last call ran, in order
  calls,          \* the registered functions the last call invoked, in order
  data,           \* the rows of the DataFrame given to apply_template_transform
  expressions,    \* the template's columns with their expressions, in order
  fail_on_error,  \* the fail_on_error flag of the last transform
  result_df,      \* the rows of the DataFrame the transform returned
  errors,         \* the error dict the transform returned: column -> records
  workbook,       \* Session.workbook: the sheets of the file with their rows
  sheet_frames,   \* the DataFrames of Session.sheet_data: sheet -> frame
  sheet_columns,  \* Session.sheet_columns: sheet -> column names
  header_overrides,  \* Session.header_overrides: sheet -> header row
  sheet_header_row,  \* Session.sheet_header_row: sheet -> inferred header row
  command         \* the last backslash command of the REPL with its arguments

vars == <<name_map, reverse_map, counter, ret, call, query, strict, params,
          outcome, stages, all_sheets, sheet_data, orig_to_alias, engine,
          CUSTOM_FUNCTIONS, ALLOW_EVAL_FALLBACK, expr, row_data, result,
          attempts, calls, data, expressions, fail_on_error, result_df, errors,
          workbook, sheet_frames, sheet_columns, header_overrides,
          sheet_header_row, command>>

mapperVars == <<name_map, reverse_map, counter, ret, call>>
callVars == <<query, strict, params, outcome, stages>>
sessionVars == <<all_sheets, sheet_data, orig_to_alias, engine>>
evalVars == <<CUSTOM_FUNCTIONS, ALLOW_EVAL_FALLBACK, expr, row_data, result,
              attempts, calls>>
templateVars == <<data, expressions, fail_on_error, result_df, errors>>
headerVars == <<workbook, sheet_frames, sheet_columns, header_overrides,
                sheet_header_row, command>>
otherVars == <<evalVars, templateVars, headerVars>>

(***************************************************************************)
(* Characters                                                              *)
(***************************************************************************)
UpperLetters == <<"A","B","C","D","E","F","G","H","I","J","K","L","M",
                  "N","O","P","Q","R","S","T","U","V","W","X","Y","Z">>
LowerLetters == <<"a","b","c","d","e","f","g","h","i","j","k","l","m",
                  "n","o","p","q","r","s","t","u","v","w","x","y","z">>
Digits == <<"0","1","2","3","4","5","6","7","8","9">>

AsciiUpper == {UpperLetters[i] : i \in 1..26}
AsciiLower == {LowerLetters[i] : i \in 1..26}
AsciiDigit == {Digits[i] : i \in 1..10}
AsciiLetter == AsciiUpper \cup AsciiLower

\* A letter outside ASCII, in its two cases.
NonAsciiUp == "U+00C9"
NonAsciiLow == "U+00E9"

\* The explicit class [a-zA-Z0-9_].
AsciiWord == AsciiLetter \cup AsciiDigit \cup {"_"}
\* The class \w of a str pattern: Unicode letters count.
WordChars == AsciiWord \cup {NonAsciiUp, NonAsciiLow}

Whitespace == {" ", "\t", "\n"}

\* Python's None: no text, every text being a sequence of one-character strings.
None == <<"None">>

LowerMap ==
  [c \in AsciiUpper |-> LowerLetters[CHOOSE i \in 1..26 : UpperLetters[i] = c]]
UpperMap ==
  [c \in AsciiLower |-> UpperLetters[CHOOSE i \in 1..26 : LowerLetters[i] = c]]

\* str.lower() and str.upper(), one character at a time.
LowerChar(c) ==
  IF c \in AsciiUpper THEN LowerMap[c]
  ELSE IF c = NonAsciiUp THEN NonAsciiLow ELSE c
UpperChar(c) ==
  IF c \in AsciiLower THEN UpperMap[c]
  ELSE IF c = NonAsciiLow THEN NonAsciiUp ELSE c

LowerStr(s) == [i \in 1..Len(s) |-> LowerChar(s[i])]
UpperStr(s) == [i \in 1..Len(s) |-> UpperChar(s[i])]

\* s[i:] and s[i:j] of Python, on 1-based positions: Drop(s, k) drops k characters.
Drop(s, k) == IF k >= Len(s) THEN <<>> ELSE SubSeq(s, k + 1, Len(s))
Take(s, k) == IF k >= Len(s) THEN s ELSE SubSeq(s, 1, k)

\* str.startswith
StartsWith(s, p) == Len(s) >= Len(p) /\ SubSeq(s, 1, Len(p)) = p

\* str(n) of a natural number
RECURSIVE IntStr(_)
IntStr(n) ==
  IF n < 10 THEN <<Digits[n + 1]>>
  ELSE IntStr(n \div 10) \o <<Digits[(n % 10) + 1]>>

RECURSIVE Concat(_)
Concat(ss) == IF ss = <<>> THEN <<>> ELSE Head(ss) \o Concat(Tail(ss))

(***************************************************************************)
(* SheetTableMapper (utils/excel_utils.py)                                 *)
(***************************************************************************)
\* The bound on how many names a mapper holds.
MaxSheets == 3

\* The sheet names the mapper is given.
MapperNames ==
  { <<>>, <<"a">>, <<"A">>, <<"a","_","1">>, <<"A"," ","1">>, <<"1">>,
    <<" ">>, <<NonAsciiUp>>, <<"a"," "," ","b">>, <<"_">> }

EmptyMapper == [name_map |-> <<>>, reverse_map |-> <<>>, counter |-> 0]

\* re.sub(r'[^a-zA-Z0-9_]', '_', sheet_name.lower())
SanitizedLower(sheet_name) ==
  [i \in 1..Len(sheet_name) |->
     IF LowerChar(sheet_name[i]) \in AsciiWord THEN LowerChar(sheet_name[i]) ELSE "_"]

\* The same without .lower(): a mapper that keeps the name's letter case.
SanitizedKeepCase(sheet_name) ==
  [i \in 1..Len(sheet_name) |->
     IF sheet_name[i] \in AsciiWord THEN sheet_name[i] ELSE "_"]

Sanitized(sheet_name) == SanitizedLower(sheet_name)

\* Lines 24-28 without lines 29-30: no s_ is put before a name that does not
\* start with a letter.
BaseName_NoPrefix(sheet_name, cnt) ==
  LET safe_name == Sanitized(sheet_name) IN
  IF safe_name = <<>> THEN <<"s","h","e","e","t","_">> \o IntStr(cnt)
  ELSE safe_name

\* Lines 24-30: the candidate name before the duplicate check.
BaseName(sheet_name, cnt) ==
  LET safe_name == Sanitized(sheet_name) IN
  IF safe_name = <<>> THEN <<"s","h","e","e","t","_">> \o IntStr(cnt)
  ELSE IF safe_name[1] \notin AsciiLetter THEN <<"s","_">> \o safe_name
  ELSE safe_name

\* Lines 33-37 without the loop: the candidate is used even when it is taken.
AvoidDuplicates_Never(base_name, safe_name, suffix, taken) == safe_name

\* Lines 33-37: the while loop that appends _1, _2, ... while the name is taken.
RECURSIVE AvoidDuplicates(_, _, _, _)
AvoidDuplicates(base_name, safe_name, suffix, taken) ==
  IF safe_name \notin taken THEN safe_name
  ELSE AvoidDuplicates(base_name, base_name \o <<"_">> \o IntStr(suffix),
                       suffix + 1, taken)

\* add_sheet without lines 21-22: a name already registered is given a name anew.
add_sheet_Anew(m, sheet_name) ==
  LET base_name == BaseName(sheet_name, m.counter)
      cnt == IF Sanitized(sheet_name) = <<>> THEN m.counter + 1 ELSE m.counter
      safe_name == AvoidDuplicates(base_name, base_name, 1, DOMAIN m.reverse_map)
  IN [m |-> [name_map |-> (sheet_name :> safe_name) @@ m.name_map,
             reverse_map |-> (safe_name :> sheet_name) @@ m.reverse_map,
             counter |-> cnt],
      ret |-> safe_name]

\* add_sheet on mapper m: the mapper afterwards and the returned table name.
add_sheet(m, sheet_name) ==
  IF sheet_name \in DOMAIN m.name_map
  THEN [m |-> m, ret |-> m.name_map[sheet_name]]
  ELSE
    LET base_name == BaseName(sheet_name, m.counter)
        cnt == IF Sanitized(sheet_name) = <<>> THEN m.counter + 1 ELSE m.counter
        safe_name == AvoidDuplicates(base_name, base_name, 1, DOMAIN m.reverse_map)
    IN [m |-> [name_map |-> (sheet_name :> safe_name) @@ m.name_map,
               reverse_map |-> (safe_name :> sheet_name) @@ m.reverse_map,
               counter |-> cnt],
        ret |-> safe_name]

get_table_name(m, sheet_name) ==
  IF sheet_name \notin DOMAIN m.name_map
  THEN add_sheet(m, sheet_name)
  ELSE [m |-> m, ret |-> m.name_map[sheet_name]]

get_sheet_name(m, table_name) ==
  IF table_name \in DOMAIN m.reverse_map THEN m.reverse_map[table_name] ELSE None

Mapper == [name_map |-> name_map, reverse_map |-> reverse_map, counter |-> counter]

MapperRoom(n) == n \in DOMAIN name_map \/ Cardinality(DOMAIN name_map) < MaxSheets

AddSheet(n) ==
  /\ MapperRoom(n)
  /\ LET r == add_sheet(Mapper, n) IN
       /\ name_map' = r.m.name_map
       /\ reverse_map' = r.m.reverse_map
       /\ counter' = r.m.counter
       /\ ret' = r.ret
  /\ call' = <<"add_sheet", n>>
  /\ UNCHANGED <<callVars, sessionVars>>
  /\ UNCHANGED otherVars

GetTableName(n) ==
  /\ MapperRoom(n)
  /\ LET r == get_table_name(Mapper, n) IN
       /\ name_map' = r.m.name_map
       /\ reverse_map' = r.m.reverse_map
       /\ counter' = r.m.counter
       /\ ret' = r.ret
  /\ call' = <<"get_table_name", n>>
  /\ UNCHANGED <<callVars, sessionVars>>
  /\ UNCHANGED otherVars

GetSheetName(t) ==
  /\ ret' = get_sheet_name(Mapper, t)
  /\ call' = <<"get_sheet_name", t>>
  /\ UNCHANGED <<name_map, reverse_map, counter, callVars, sessionVars>>
  /\ UNCHANGED otherVars

\* The table names a reverse lookup is tried with.
LookupNames == {name_map[n] : n \in DOMAIN name_map} \cup {<<"a">>, <<"A">>, <<"z">>}

NoCall == [kind |-> "none", error |-> "", detail |-> <<>>]

InitMapper ==
  /\ name_map = <<>>
  /\ reverse_map = <<>>
  /\ counter = 0
  /\ ret = None
  /\ call = <<"none", None>>

InitCall ==
  /\ query = <<>>
  /\ strict = FALSE
  /\ params = <<>>
  /\ outcome = NoCall
  /\ stages = <<>>

InitSession ==
  /\ all_sheets = <<>>
  /\ sheet_data = <<>>
  /\ orig_to_alias = <<>>
  /\ engine = <<>>

\* No evaluator call was made yet.
NoResult == [kind |-> "none", val |-> [t |-> "NoneType", n |-> 0, d |-> 1, s |-> ""], text |-> <<>>]

\* The module state of expr_eval after import, and no evaluator call yet.
InitEval ==
  /\ CUSTOM_FUNCTIONS = <<>>
  /\ ALLOW_EVAL_FALLBACK = FALSE
  /\ expr = None
  /\ row_data = <<>>
  /\ result = NoResult
  /\ attempts = <<>>
  /\ calls = <<>>

\* No transform was run yet.
InitTemplate ==
  /\ data = <<>>
  /\ expressions = <<>>
  /\ fail_on_error = FALSE
  /\ result_df = <<>>
  /\ errors = <<>>

\* Session.__init__: no workbook, no header known, no command given yet.
InitHeader ==
  /\ workbook = <<>>
  /\ sheet_frames = <<>>
  /\ sheet_columns = <<>>
  /\ header_overrides = <<>>
  /\ sheet_header_row = <<>>
  /\ command = <<>>

InitOther == InitEval /\ InitTemplate /\ InitHeader

MapperInit == InitMapper /\ InitCall /\ InitSession /\ InitOther

MapperNext ==
  \/ \E n \in MapperNames : AddSheet(n)
  \/ \E n \in MapperNames : GetTableName(n)
  \/ \E t \in LookupNames : GetSheetName(t)

SpecMapper == MapperInit /\ [][MapperNext]_vars

(***************************************************************************)
(* C10: after any sequence of add_sheet and get_table_name calls, two      *)
(* distinct registered names have table names that differ even when        *)
(* compared without regard to letter case.                                 *)
(***************************************************************************)
C10_DistinctIgnoringCase ==
  \A n1, n2 \in DOMAIN name_map :
    n1 # n2 => LowerStr(name_map[n1]) # LowerStr(name_map[n2])

\* Three names with the same candidate a, one of them the name a_1 itself.
C10_Witness ==
  /\ {<<"a">>, <<"A">>, <<"a","_","1">>} \subseteq DOMAIN name_map
  /\ name_map[<<"a","_","1">>] = <<"a","_","1">>
  /\ \E n \in {<<"a">>, <<"A">>} : name_map[n] = <<"a","_","2">>

(***************************************************************************)
(* C11: once a name has a table name, no later call changes it, and a call *)
(* of add_sheet or get_table_name with that name, after any registrations  *)
(* of other names, returns it and leaves name_map, reverse_map and counter *)
(* as they were.                                                           *)
(***************************************************************************)
C11_IdempotentAndStable ==
  [][/\ \A n \in DOMAIN name_map :
          n \in DOMAIN name_map' /\ name_map'[n] = name_map[n]
     /\ (call'[1] \in {"add_sheet", "get_table_name"} /\ call'[2] \in DOMAIN name_map)
          => /\ ret' = name_map[call'[2]]
             /\ UNCHANGED <<name_map, reverse_map, counter>>]_vars

\* The name "A 1" got a_1 before the name a_1 was registered, and add_sheet
\* with it returns a_1 again.
C11_Witness ==
  /\ call = <<"add_sheet", <<"A"," ","1">>>>
  /\ ret = <<"a","_","1">>
  /\ <<"a","_","1">> \in DOMAIN name_map
  /\ name_map[<<"a","_","1">>] = <<"a","_","1","_","1">>

\* t matches ^[A-Za-z_][A-Za-z0-9_]*$
IsSafeIdentifier(t) ==
  /\ t # <<>>
  /\ t[1] \in AsciiLetter \cup {"_"}
  /\ \A i \in 1..Len(t) : t[i] \in AsciiWord

(***************************************************************************)
(* C12: every table name that add_sheet returns, and every one the mapper  *)
(* holds, matches ^[A-Za-z_][A-Za-z0-9_]*$, whatever the sheet name: empty, *)
(* not ASCII, starting with a digit or an underscore, or colliding.        *)
(***************************************************************************)
C12_SafeIdentifiers ==
  /\ call[1] \in {"add_sheet", "get_table_name"} => IsSafeIdentifier(ret)
  /\ \A n \in DOMAIN name_map : IsSafeIdentifier(name_map[n])

\* The empty name, the name _ and, last, a letter that is not ASCII, whose
\* candidate s__ the name _ has taken.
C12_Witness ==
  /\ DOMAIN name_map = {<<>>, <<"_">>, <<NonAsciiUp>>}
  /\ call = <<"add_sheet", <<NonAsciiUp>>>>
  /\ ret = <<"s","_","_","_","1">>

(***************************************************************************)
(* C13: name_map and reverse_map are inverse to each other: get_sheet_name *)
(* of a registered name's table name is that name, and every key of        *)
(* reverse_map is the table name of exactly one registered name.           *)
(***************************************************************************)
C13_MutuallyInverse ==
  /\ \A n \in DOMAIN name_map : get_sheet_name(Mapper, name_map[n]) = n
  /\ \A t \in DOMAIN reverse_map :
       Cardinality({n \in DOMAIN name_map : name_map[n] = t}) = 1
  /\ (call[1] = "get_sheet_name" /\ call[2] \in DOMAIN reverse_map)
       => (ret \in DOMAIN name_map /\ name_map[ret] = call[2])

\* The names a and A were given a and a_1, and a_1 is looked up.
C13_Witness ==
  /\ {<<"a">>, <<"A">>} \subseteq DOMAIN name_map
  /\ name_map[<<"A">>] = <<"a","_","1">>
  /\ call = <<"get_sheet_name", <<"a","_","1">>>>
  /\ ret = <<"A">>

(***************************************************************************)
(* C14: get_table_name with a name that was never registered, and          *)
(* get_sheet_name with a table name that was never given, return None and  *)
(* leave name_map, reverse_map and counter as they were.                   *)
(***************************************************************************)
C14_LookupsArePure ==
  [][/\ (call'[1] = "get_table_name" /\ call'[2] \notin DOMAIN name_map)
          => (ret' = None /\ UNCHANGED <<name_map, reverse_map, counter>>)
     /\ (call'[1] = "get_sheet_name" /\ call'[2] \notin DOMAIN reverse_map)
          => (ret' = None /\ UNCHANGED <<name_map, reverse_map, counter>>)]_vars

\* s with every maximal run of characters outside [A-Za-z0-9_] made one
\* underscore; in_run says that the character before was of such a run.
RECURSIVE RunsToUnderscore(_, _)
RunsToUnderscore(s, in_run) ==
  IF s = <<>> THEN <<>>
  ELSE IF Head(s) \in AsciiWord THEN <<Head(s)>> \o RunsToUnderscore(Tail(s), FALSE)
  ELSE (IF in_run THEN <<>> ELSE <<"_">>) \o RunsToUnderscore(Tail(s), TRUE)

\* The lower-cased name with runs made one underscore, s_ put before it when
\* it does not start with a letter.
RunsIdentifier(n) ==
  LET squashed == RunsToUnderscore(LowerStr(n), FALSE) IN
  IF squashed # <<>> /\ squashed[1] \notin AsciiLetter
  THEN <<"s","_">> \o squashed ELSE squashed

\* The step is add_sheet with a new name.
AddsNewName == call'[1] = "add_sheet" /\ call'[2] \notin DOMAIN name_map

(***************************************************************************)
(* C15: for a name that is not empty and collides with no table name,      *)
(* add_sheet returns the lower-cased name in which every maximal run of    *)
(* characters outside [A-Za-z0-9_] is one underscore, with s_ before it    *)
(* when it does not start with a letter.                                   *)
(***************************************************************************)
C15_RunsBecomeOneUnderscore ==
  [][(/\ AddsNewName
      /\ call'[2] # <<>>
      /\ RunsIdentifier(call'[2]) \notin DOMAIN reverse_map
      /\ BaseName(call'[2], counter) \notin DOMAIN reverse_map)
       => ret' = RunsIdentifier(call'[2])]_vars

\* The name is empty or made only of characters outside [A-Za-z0-9_].
OnlySymbols(n) == \A i \in 1..Len(n) : n[i] \notin AsciiWord

(***************************************************************************)
(* C16: add_sheet with a new name that is empty or made only of characters *)
(* outside [A-Za-z0-9_] returns sheet_<k>, k counting from 0 the names of  *)
(* that kind registered before it.                                         *)
(***************************************************************************)
C16_SymbolNamesAreNumbered ==
  [][(AddsNewName /\ OnlySymbols(call'[2]))
       => ret' = <<"s","h","e","e","t","_">>
                   \o IntStr(Cardinality({n \in DOMAIN name_map : OnlySymbols(n)}))]_vars

(***************************************************************************)
(* The query validator (core/sql_engine.py, utils/constants.py)            *)
(***************************************************************************)
\* FORBIDDEN_SQL_TOKENS, in the order of the list.
FORBIDDEN_SQL_TOKENS ==
  <<<<"C","R","E","A","T","E">>,
     <<"A","L","T","E","R">>,
     <<"D","R","O","P">>,
     <<"T","R","U","N","C","A","T","E">>,
     <<"D","E","L","E","T","E">>,
     <<"U","P","D","A","T","E">>,
     <<"I","N","S","E","R","T">>,
     <<"M","E","R","G","E">>,
     <<"G","R","A","N","T">>,
     <<"R","E","V","O","K","E">>,
     <<"C","O","M","M","I","T">>,
     <<"R","O","L","L","B","A","C","K">>,
     <<"S","A","V","E","P","O","I","N","T">>,
     <<"C","O","N","N","E","C","T">>,
     <<"S","E","T">>,
     <<"P","R","A","G","M","A">>,
     <<"C","O","P","Y">>,
     <<"V","A","C","U","U","M">>,
     <<"A","N","A","L","Y","Z","E">>,
     <<"A","T","T","A","C","H">>,
     <<"D","E","T","A","C","H">>,
     <<"B","E","G","I","N">>,
     <<"E","N","D">>,
     <<"T","R","A","N","S","A","C","T","I","O","N">>>>

ForbiddenSet == {FORBIDDEN_SQL_TOKENS[i] : i \in 1..Len(FORBIDDEN_SQL_TOKENS)}

KwSELECT == <<"S","E","L","E","C","T">>

Ok == [kind |-> "ok", error |-> "", detail |-> <<>>]
Err(e, d) == [kind |-> "error", error |-> e, detail |-> d]

\* str.lstrip()
RECURSIVE LStrip(_)
LStrip(s) ==
  IF s # <<>> /\ Head(s) \in Whitespace THEN LStrip(Tail(s)) ELSE s

\* The position of the first c in s at or after position i, 0 when there is none.
RECURSIVE IndexFrom(_, _, _)
IndexFrom(s, c, i) ==
  IF i > Len(s) THEN 0
  ELSE IF s[i] = c THEN i ELSE IndexFrom(s, c, i + 1)

\* re.sub of the pattern q[^q]*q by qq, for a quote character q: each quote that
\* has a later quote opens a match that ends at the next quote; matches are
\* replaced left to right.
RECURSIVE MaskQuoted(_, _)
MaskQuoted(s, q) ==
  IF s = <<>> THEN <<>>
  ELSE IF Head(s) = q THEN
    LET j == IndexFrom(s, q, 2) IN
    IF j = 0 THEN s
    ELSE <<q, q>> \o MaskQuoted(Drop(s, j), q)
  ELSE <<Head(s)>> \o MaskQuoted(Tail(s), q)

\* re.sub(r"'[^']*'", "''", s)
MaskLiterals(s) == MaskQuoted(s, "'")

\* No masking at all: the keyword scan reads the raw text.
MaskNothing(s) == s

\* \b at the gap before position i of s (between s[i-1] and s[i]).
WordBoundary(s, i) ==
  LET before == i > 1 /\ s[i - 1] \in WordChars
      after == i <= Len(s) /\ s[i] \in WordChars
  IN before # after

\* The end of the run of word characters that starts at position i: the first
\* position at or after i that holds no word character.
RECURSIVE WordEnd(_, _)
WordEnd(s, i) ==
  IF i > Len(s) \/ s[i] \notin WordChars THEN i ELSE WordEnd(s, i + 1)

\* The token FORBIDDEN_SQL_REGEX matches at position i of s (re.IGNORECASE), in
\* upper case, None when it does not match there: \b, one of the tokens, \b. The
\* tokens are made of word characters, so a match is a whole run of them.
ForbiddenAtWord(s, i) ==
  IF i > Len(s) \/ s[i] \notin WordChars \/ ~WordBoundary(s, i) THEN None
  ELSE LET w == UpperStr(SubSeq(s, i, WordEnd(s, i) - 1)) IN
       IF w \in ForbiddenSet THEN w ELSE None

ForbiddenAt(s, i) == ForbiddenAtWord(s, i)

\* next(FORBIDDEN_SQL_REGEX.finditer(s)).group(1).upper() from position i on,
\* None without a match.
RECURSIVE FirstForbiddenFrom(_, _)
FirstForbiddenFrom(s, i) ==
  IF i > Len(s) THEN None
  ELSE IF ForbiddenAt(s, i) # None THEN ForbiddenAt(s, i)
  ELSE FirstForbiddenFrom(s, i + 1)

FirstForbidden(s) == FirstForbiddenFrom(s, 1)

\* [m.group(1) for m in re.finditer(r'\{([^}]+)\}', s)]: a brace, one or more
\* characters other than the closing brace, the closing brace.
RECURSIVE PlaceholderRefs(_, _)
PlaceholderRefs(s, i) ==
  IF i > Len(s) THEN <<>>
  ELSE IF s[i] = "{" THEN
    LET j == IndexFrom(s, "}", i + 1) IN
    IF j = 0 THEN <<>>
    ELSE IF j = i + 1 THEN PlaceholderRefs(s, i + 1)
    ELSE <<SubSeq(s, i + 1, j - 1)>> \o PlaceholderRefs(s, j + 1)
  ELSE PlaceholderRefs(s, i + 1)

\* The first element of refs that is not in the set known, None when all are.
RECURSIVE FirstUnknown(_, _)
FirstUnknown(refs, known) ==
  IF refs = <<>> THEN None
  ELSE IF Head(refs) \notin known THEN Head(refs)
  ELSE FirstUnknown(Tail(refs), known)

\* Lines 25-31 of validate_query: the placeholder checks.
CheckPlaceholders(q, available_sheets, st) ==
  LET refs == PlaceholderRefs(q, 1) IN
  IF refs = <<>> /\ st THEN Err("NoPlaceholders", <<>>)
  ELSE IF FirstUnknown(refs, available_sheets) # None
       THEN Err("UnknownSheet", FirstUnknown(refs, available_sheets))
  ELSE Ok

\* The placeholder checks on the masked text: placeholders in literals are not seen.
CheckPlaceholdersMasked(q, available_sheets, st) ==
  CheckPlaceholders(MaskLiterals(q), available_sheets, st)

\* validate_query with the keyword scan before the statement-kind check.
validate_query_ScanFirst(q, available_sheets, st) ==
  IF q = None \/ q = <<>> THEN Ok
  ELSE
    LET stripped == LStrip(q)
        sanitized == MaskLiterals(stripped)
    IN IF FirstForbidden(sanitized) # None
       THEN Err("ForbiddenToken", FirstForbidden(sanitized))
       ELSE IF ~StartsWith(UpperStr(stripped), KwSELECT) THEN Err("NotASelect", <<>>)
       ELSE CheckPlaceholders(q, available_sheets, st)

\* validate_query with the placeholder checks before the keyword scan.
validate_query_SheetsFirst(q, available_sheets, st) ==
  IF q = None \/ q = <<>> THEN Ok
  ELSE
    LET stripped == LStrip(q)
        sanitized == MaskLiterals(stripped)
        sheets == CheckPlaceholders(q, available_sheets, st)
    IN IF ~StartsWith(UpperStr(stripped), KwSELECT) THEN Err("NotASelect", <<>>)
       ELSE IF sheets # Ok THEN sheets
       ELSE IF FirstForbidden(sanitized) # None
       THEN Err("ForbiddenToken", FirstForbidden(sanitized))
       ELSE Ok

\* The masking step of validate_query, line 22.
Sanitize(stripped) == MaskLiterals(stripped)

\* The placeholder step of validate_query, lines 25-31.
SheetCheck(q, available_sheets, st) == CheckPlaceholders(q, available_sheets, st)

\* validate_query: Ok when it returns, the error it raises otherwise.
validate_query(q, available_sheets, st) ==
  IF q = None \/ q = <<>> THEN Ok
  ELSE
    LET stripped == LStrip(q)
        sanitized == Sanitize(stripped)
    IN IF ~StartsWith(UpperStr(stripped), KwSELECT) THEN Err("NotASelect", <<>>)
       ELSE IF FirstForbidden(sanitized) # None
       THEN Err("ForbiddenToken", FirstForbidden(sanitized))
       ELSE SheetCheck(q, available_sheets, st)

\* utils/validation.py keeps a second validate_query, which no caller uses: it
\* masks double-quoted text as well and raises ValidationError.
validate_query_utils(q, available_sheets, st) ==
  IF q = None \/ q = <<>> THEN Ok
  ELSE
    LET stripped == LStrip(q)
        sanitized == MaskQuoted(MaskLiterals(stripped), "\"")
    IN IF ~StartsWith(UpperStr(stripped), KwSELECT) THEN Err("NotASelect", <<>>)
       ELSE IF FirstForbidden(sanitized) # None
       THEN Err("ForbiddenToken", FirstForbidden(sanitized))
       ELSE CheckPlaceholders(q, available_sheets, st)

\* The bound on how many fragments follow a query's first word.
MaxBody == 4

\* All texts made of at most n fragments of the set atoms.
Bodies(atoms, n) == {Concat(b) : b \in UNION {[1..k -> atoms] : k \in 0..n}}

\* The sheets the validator is told exist.
KnownSheets == {<<"S">>}

DeleteQuery == <<"D","E","L","E","T","E"," ","F","R","O","M"," ","{","S","}">>

\* How the validated queries begin: nothing, SELECT, or blanks and select.
QueryPrefixes == {<<>>, KwSELECT, <<" ","s","e","l","e","c","t">>}

\* Fragments about keywords and string literals.
KeywordAtoms ==
  {<<" ">>, <<"s">>, <<"'">>, <<"'","'">>, <<"S","e","t">>, <<"E","N","D">>,
   <<"{","s","}">>}

\* Fragments about placeholders.
SheetAtoms ==
  {<<" ">>, <<"'">>, <<"{","S","}">>, <<"{","s","}">>, <<"{">>, <<"}">>,
   <<"S","e","t">>}

KeywordQueries ==
  {p \o b : p \in QueryPrefixes, b \in Bodies(KeywordAtoms, MaxBody)} \cup {DeleteQuery}

SheetQueries == {p \o b : p \in QueryPrefixes, b \in Bodies(SheetAtoms, MaxBody)}

\* A call validate_query(query, ["S"], st).
ValidateQuery(st) ==
  /\ outcome = NoCall
  /\ outcome' = validate_query(query, KnownSheets, st)
  /\ strict' = st
  /\ stages' = <<"validate_query">>
  /\ UNCHANGED <<query, params, mapperVars, sessionVars>>
  /\ UNCHANGED otherVars

ValidateInit(queries) ==
  /\ InitMapper /\ InitOther /\ InitSession
  /\ query \in queries
  /\ strict = FALSE
  /\ params = <<>>
  /\ outcome = NoCall
  /\ stages = <<>>

ValidateNext == \E st \in BOOLEAN : ValidateQuery(st)

SpecValidate == ValidateInit(KeywordQueries) /\ [][ValidateNext]_vars
SpecSheets == ValidateInit(SheetQueries) /\ [][ValidateNext]_vars

Validated == outcome # NoCall /\ stages = <<"validate_query">>

(***************************************************************************)
(* What the claims about the validator speak of, read off the query text   *)
(* alone.                                                                  *)
(***************************************************************************)
\* marks with positions a..b set to v.
Paint(marks, a, b, v) ==
  [k \in DOMAIN marks |-> IF a <= k /\ k <= b THEN v ELSE marks[k]]

\* A scan of s for single-quoted literals in which '' is an escaped quote: each
\* position is marked "lit" (in a literal that is closed, quotes included), "open"
\* (from a quote that is never closed to the end) or "out".
RECURSIVE MarkFrom(_, _, _, _, _)
MarkFrom(s, i, in_single, start, marks) ==
  IF i > Len(s)
  THEN IF in_single THEN Paint(marks, start, Len(s), "open") ELSE marks
  ELSE IF in_single THEN
    IF s[i] = "'" THEN
      IF i + 1 <= Len(s) /\ s[i + 1] = "'"
      THEN MarkFrom(s, i + 2, TRUE, start, marks)
      ELSE MarkFrom(s, i + 1, FALSE, 0, Paint(marks, start, i, "lit"))
    ELSE MarkFrom(s, i + 1, TRUE, start, marks)
  ELSE IF s[i] = "'" THEN MarkFrom(s, i + 1, TRUE, i, marks)
  ELSE MarkFrom(s, i + 1, FALSE, 0, marks)

LiteralMarks(s) == MarkFrom(s, 1, FALSE, 0, [k \in 1..Len(s) |-> "out"])

\* The forbidden keyword that stands as a whole word at position i of s, in any
\* letter case; None when there is none.
KeywordAt(s, i) ==
  IF i < 1 \/ i > Len(s) \/ s[i] \notin AsciiLetter
     \/ (i > 1 /\ s[i - 1] \in WordChars)
  THEN None
  ELSE
    LET found == {tok \in ForbiddenSet :
                    /\ i + Len(tok) - 1 <= Len(s)
                    /\ (i + Len(tok) > Len(s) \/ s[i + Len(tok)] \notin WordChars)
                    /\ \A k \in 1..Len(tok) : UpperChar(s[i + k - 1]) = tok[k]} IN
    IF found = {} THEN None ELSE CHOOSE tok \in found : TRUE

\* The positions of s where a forbidden keyword stands as a whole word.
KeywordPositions(s) == {i \in 1..Len(s) : KeywordAt(s, i) # None}

\* Those outside every literal, and those inside a closed literal.
KeywordsMarked(s, mark) ==
  LET marks == LiteralMarks(s) IN {i \in KeywordPositions(s) : marks[i] = mark}
KeywordsOutside(s) == KeywordsMarked(s, "out")
KeywordsInLiterals(s) == KeywordsMarked(s, "lit")

\* The first word of s: its leading run of word characters.
FirstKeyword(s) == SubSeq(s, 1, WordEnd(s, 1) - 1)

\* The query with its leading blanks removed.
Trimmed == LStrip(query)

BeginsWithSelect == StartsWith(UpperStr(Trimmed), KwSELECT)

Minimum(S) == CHOOSE x \in S : \A y \in S : x <= y

(***************************************************************************)
(* C3 as stated: validate_query rejects "DELETE FROM {S}" (S known, strict *)
(* off) with the forbidden-token error.                                    *)
(***************************************************************************)
C3_DeleteIsForbiddenToken ==
  (Validated /\ ~strict /\ query = DeleteQuery)
    => outcome.error = "ForbiddenToken"

(***************************************************************************)
(* C3 amended: a query whose first word is a forbidden keyword, such as    *)
(* "DELETE FROM {S}", is rejected with the not-a-SELECT error: the keyword *)
(* scan is reached only by queries that start with SELECT.                 *)
(***************************************************************************)
C3_DeleteIsNotASelect ==
  (Validated /\ UpperStr(FirstKeyword(Trimmed)) \in ForbiddenSet)
    => outcome = Err("NotASelect", <<>>)

C3_Witness ==
  /\ Validated /\ ~strict /\ query = DeleteQuery
  /\ outcome = Err("NotASelect", <<>>)

(***************************************************************************)
(* C4: validate_query fails with the not-a-SELECT error for every          *)
(* non-empty query whose first keyword, blanks trimmed and case ignored,   *)
(* is not exactly SELECT, and passes that check only when it is SELECT.    *)
(***************************************************************************)
C4_NotASelectUnlessSelect ==
  (Validated /\ query # <<>>)
    => (outcome = Err("NotASelect", <<>>)
          <=> UpperStr(FirstKeyword(Trimmed)) # KwSELECT)

(***************************************************************************)
(* C5: for a query that begins with SELECT, whenever a forbidden keyword   *)
(* stands as a whole word, in any letter case, outside the string          *)
(* literals, validate_query fails with the forbidden-token error naming    *)
(* the first such keyword, whatever the placeholders and the strict flag.  *)
(***************************************************************************)
C5_ForbiddenTokenFirst ==
  (Validated /\ BeginsWithSelect /\ KeywordsOutside(Trimmed) # {})
    => outcome = Err("ForbiddenToken",
                     KeywordAt(Trimmed, Minimum(KeywordsOutside(Trimmed))))

\* Strict mode, an unknown placeholder, and two keywords of which the first is
\* written in mixed case.
C5_Witness ==
  /\ Validated /\ strict
  /\ query = KwSELECT \o <<"{","s","}","S","e","t"," ","E","N","D">>
  /\ outcome = Err("ForbiddenToken", <<"S","E","T">>)

(***************************************************************************)
(* C6: when the forbidden keywords of a SELECT query all lie inside        *)
(* single-quoted literals, '' being an escaped quote that does not end the *)
(* literal, validate_query does not raise the forbidden-token error.       *)
(***************************************************************************)
C6_LiteralsAreMasked ==
  (Validated /\ BeginsWithSelect /\ KeywordPositions(Trimmed) # {}
     /\ KeywordPositions(Trimmed) = KeywordsInLiterals(Trimmed))
    => /\ outcome.error # "ForbiddenToken"
       /\ validate_query_utils(query, KnownSheets, strict).error # "ForbiddenToken"

\* A literal that holds an escaped quote and a keyword.
C6_Witness ==
  /\ Validated /\ ~strict
  /\ query = KwSELECT \o <<"'","'","'","S","e","t","'">>
  /\ outcome = Ok

BSL == "\\"

\* What an escape of a replacement template stands for: \a \b \f \n \r \t \v \\.
TemplateEscapes ==
  [c \in {"a", "b", "f", "n", "r", "t", "v", BSL} |->
     CASE c = "a" -> "BEL" [] c = "b" -> "BS" [] c = "f" -> "\f" [] c = "n" -> "\n"
       [] c = "r" -> "\r" [] c = "t" -> "\t" [] c = "v" -> "VT" [] OTHER -> BSL]

OctalDigits == {"0", "1", "2", "3", "4", "5", "6", "7"}

\* str.isidentifier()
IsIdentifier(k) ==
  /\ k # <<>> /\ k # None
  /\ k[1] \in WordChars \ AsciiDigit
  /\ \A i \in 1..Len(k) : k[i] \in WordChars

\* v.replace("'", "''")
RECURSIVE DoubleQuotes(_)
DoubleQuotes(v) ==
  IF v = <<>> THEN <<>>
  ELSE (IF Head(v) = "'" THEN <<"'", "'">> ELSE <<Head(v)>>) \o DoubleQuotes(Tail(v))

\* Lines 63-67: escaped_value.
EscapedValue(v) ==
  IF v = None THEN <<"N","U","L","L">>
  ELSE <<"'">> \o DoubleQuotes(v) \o <<"'">>

\* How re.sub reads its replacement text, a template: a backslash starts an
\* escape. [ok, text] is the text put in place of a match whose text is matched,
\* for a pattern without groups; ok is FALSE when re.error is raised (a bad
\* escape, a group reference, a lone backslash).
RECURSIVE ExpandTemplate(_, _)
ExpandTemplate(repl, matched) ==
  IF repl = <<>> THEN [ok |-> TRUE, text |-> <<>>]
  ELSE IF Head(repl) # BSL THEN
    LET rest == ExpandTemplate(Tail(repl), matched) IN
    [ok |-> rest.ok, text |-> <<Head(repl)>> \o rest.text]
  ELSE IF Len(repl) = 1 THEN [ok |-> FALSE, text |-> <<>>]
  ELSE
    LET c == repl[2] IN
    IF c = "g" THEN
      \* \g<0> is the whole match; any other group is unknown
      IF Len(repl) >= 5 /\ SubSeq(repl, 3, 5) = <<"<", "0", ">">>
      THEN LET rest == ExpandTemplate(Drop(repl, 5), matched) IN
           [ok |-> rest.ok, text |-> matched \o rest.text]
      ELSE [ok |-> FALSE, text |-> <<>>]
    ELSE IF c = "0" THEN
      \* \0 and up to two octal digits: one character
      LET n == IF Len(repl) >= 3 /\ repl[3] \in OctalDigits
               THEN (IF Len(repl) >= 4 /\ repl[4] \in OctalDigits THEN 4 ELSE 3)
               ELSE 2
          rest == ExpandTemplate(Drop(repl, n), matched)
      IN [ok |-> rest.ok, text |-> <<"OCTAL">> \o rest.text]
    ELSE IF c \in AsciiDigit THEN
      \* three octal digits are a character, anything else a group reference
      IF /\ Len(repl) >= 4 /\ c \in {"1", "2", "3"}
         /\ repl[3] \in OctalDigits /\ repl[4] \in OctalDigits
      THEN LET rest == ExpandTemplate(Drop(repl, 4), matched) IN
           [ok |-> rest.ok, text |-> <<"OCTAL">> \o rest.text]
      ELSE [ok |-> FALSE, text |-> <<>>]
    ELSE IF c \in DOMAIN TemplateEscapes THEN
      LET rest == ExpandTemplate(Drop(repl, 2), matched) IN
      [ok |-> rest.ok, text |-> <<TemplateEscapes[c]>> \o rest.text]
    ELSE IF c \in AsciiLetter THEN [ok |-> FALSE, text |-> <<>>]
    ELSE
      LET rest == ExpandTemplate(Drop(repl, 2), matched) IN
      [ok |-> rest.ok, text |-> <<BSL, c>> \o rest.text]

\* The pattern :k\b matches at the head of s.
ParamAtHead(s, k) ==
  /\ Len(s) >= 1 + Len(k)
  /\ s[1] = ":"
  /\ SubSeq(s, 2, 1 + Len(k)) = k
  /\ (Len(s) = 1 + Len(k) \/ s[2 + Len(k)] \notin WordChars)

\* s with every match of :k\b replaced by text, left to right.
RECURSIVE ReplaceParam(_, _, _)
ReplaceParam(s, k, text) ==
  IF s = <<>> THEN <<>>
  ELSE IF ParamAtHead(s, k) THEN text \o ReplaceParam(Drop(s, 1 + Len(k)), k, text)
  ELSE <<Head(s)>> \o ReplaceParam(Tail(s), k, text)

\* Line 70: re.sub(rf':{re.escape(k)}\b', escaped_value, sql). The template is
\* compiled before the text is searched.
ReSub(sql, k, escaped_value) ==
  LET t == ExpandTemplate(escaped_value, <<":">> \o k) IN
  IF t.ok THEN [ok |-> TRUE, text |-> ReplaceParam(sql, k, t.text)]
  ELSE [ok |-> FALSE, text |-> sql]

\* The for loop of lines 58-70 over the items of ps, in dict order.
RECURSIVE ApplyEach(_, _)
ApplyEach(sql, ps) ==
  IF ps = <<>> THEN [ok |-> TRUE, text |-> sql]
  ELSE
    LET k == Head(ps)[1]
        v == Head(ps)[2]
    IN IF ~IsIdentifier(k) THEN ApplyEach(sql, Tail(ps))
       ELSE LET r == ReSub(sql, k, EscapedValue(v)) IN
            IF r.ok THEN ApplyEach(r.text, Tail(ps)) ELSE r

OkText(text) == [kind |-> "ok", error |-> "", detail |-> text]

\* params=None, told apart from every dict: no dict has the key None.
NoDict == <<<<None, None>>>>

\* apply_params(sql, ps); ps is NoDict or the dict's items in order. The outcome
\* is the text returned, or the re.error raised by re.sub.
apply_params(sql, ps) ==
  IF ps = NoDict \/ ps = <<>> THEN OkText(sql)
  ELSE LET r == ApplyEach(sql, ps) IN
       IF r.ok THEN OkText(r.text) ELSE Err("re.error", <<>>)

\* The bound on how many fragments an SQL text with parameters has.
MaxSqlAtoms == 3

SqlAtoms == {<<":","a">>, <<":","b">>, <<"b">>, <<" ">>}

SqlTexts == Bodies(SqlAtoms, MaxSqlAtoms)

\* Parameter names: two identifiers and a name that is none.
ParamKeys == {<<"a">>, <<"b">>, <<"1">>}

\* Parameter values: plain, with a single quote, shaped like a parameter token,
\* with backslashes, and None.
ParamValues ==
  {<<"v">>, <<"o","'","b">>, <<":","b">>, <<BSL,BSL>>, <<BSL,"n">>, <<BSL,"1">>,
   None}

\* The dicts of at most two items, as the sequence of their items.
ParamDicts ==
  {<<>>}
    \cup {<<<<k, v>>>> : k \in ParamKeys, v \in ParamValues}
    \cup {d \in {<<<<k1, v1>>, <<k2, v2>>>> :
                   k1 \in ParamKeys, k2 \in ParamKeys, v1 \in ParamValues,
                   v2 \in ParamValues} : d[1][1] # d[2][1]}

\* A call apply_params(query, params).
ApplyParams ==
  /\ outcome = NoCall
  /\ outcome' = apply_params(query, params)
  /\ stages' = <<"apply_params">>
  /\ UNCHANGED <<query, params, strict, mapperVars, sessionVars>>
  /\ UNCHANGED otherVars

ParamsInit ==
  /\ InitMapper /\ InitOther /\ InitSession
  /\ query \in SqlTexts
  /\ params \in ParamDicts \cup {NoDict}
  /\ strict = FALSE
  /\ outcome = NoCall
  /\ stages = <<>>

ParamsNext == ApplyParams

SpecParams == ParamsInit /\ [][ParamsNext]_vars

Applied == outcome # NoCall /\ stages = <<"apply_params">>

\* The keys of the dict ps that are identifiers.
ValidKeys(ps) == {ps[i][1] : i \in {j \in 1..Len(ps) : IsIdentifier(ps[j][1])}}

\* The value the dict ps gives key k.
ValueOf(ps, k) == ps[CHOOSE i \in 1..Len(ps) : ps[i][1] = k][2]

\* NULL for None, else the value between single quotes with each quote doubled.
SqlLiteral(v) ==
  IF v = None THEN <<"N","U","L","L">> ELSE <<"'">> \o DoubleQuotes(v) \o <<"'">>

\* sql with every :name token of a valid key of ps replaced by that key's
\* literal, all tokens being those of sql itself.
RECURSIVE ReplaceAllAtOnce(_, _)
ReplaceAllAtOnce(sql, ps) ==
  IF sql = <<>> THEN <<>>
  ELSE LET here == {k \in ValidKeys(ps) : ParamAtHead(sql, k)} IN
       IF here = {} THEN <<Head(sql)>> \o ReplaceAllAtOnce(Tail(sql), ps)
       ELSE LET k == CHOOSE x \in here : TRUE IN
            SqlLiteral(ValueOf(ps, k)) \o ReplaceAllAtOnce(Drop(sql, 1 + Len(k)), ps)

HasBackslash(v) == v # None /\ \E i \in 1..Len(v) : v[i] = BSL

(***************************************************************************)
(* C1: apply_params replaces each :name token of a valid parameter by      *)
(* NULL when the value is None and otherwise by the value between single   *)
(* quotes with every single quote doubled, for every string value, and     *)
(* transforms the value in no other way. Stated for one parameter.         *)
(***************************************************************************)
C1_ExactLiteral ==
  (Applied /\ params # NoDict /\ Len(params) = 1 /\ IsIdentifier(params[1][1]))
    => outcome = OkText(ReplaceAllAtOnce(query, params))

(***************************************************************************)
(* C2: apply_params with two parameters gives the text in which all :name  *)
(* tokens of the original SQL are replaced at once, whatever the order of  *)
(* the parameters. Stated for values without a backslash.                  *)
(***************************************************************************)
C2_OneCombinedPass ==
  (Applied /\ params # NoDict /\ Len(params) = 2
     /\ \A i \in 1..2 : ~HasBackslash(params[i][2]))
    => outcome = OkText(ReplaceAllAtOnce(query, params))

\* The token :k stands somewhere in sql.
TokenOccurs(sql, k) == \E i \in 0..Len(sql) : ParamAtHead(Drop(sql, i), k)

(***************************************************************************)
(* C18: apply_params returns the text as it was given whenever no token of *)
(* a valid parameter stands in it: params is None or empty, a key is no    *)
(* identifier, a parameter's :name does not occur, or only a longer token  *)
(* :pq that begins with the name p does.                                   *)
(***************************************************************************)
C18_UnchangedWithoutToken ==
  (Applied /\ (params = NoDict
                 \/ \A k \in ValidKeys(params) : ~TokenOccurs(query, k)))
    => outcome = OkText(query)

(***************************************************************************)
(* execute_query (core/sql_engine.py)                                      *)
(***************************************************************************)
Range(f) == {f[i] : i \in DOMAIN f}

\* SHEET_NAME_RE.match(name), the pattern ^[A-Za-z][A-Za-z0-9_]*$ ; the $ of a
\* pattern also matches just before a newline that ends the text.
MatchesSheetNameRe(name) ==
  LET core == IF name # <<>> /\ name[Len(name)] = "\n"
              THEN Take(name, Len(name) - 1) ELSE name
  IN /\ core # <<>>
     /\ core[1] \in AsciiLetter
     /\ \A i \in 1..Len(core) : core[i] \in AsciiWord

\* validate_sheet_names: Ok, or the error raised for the first name that fails.
RECURSIVE validate_sheet_names(_, _)
validate_sheet_names(sheet_names, st) ==
  IF sheet_names = <<>> THEN Ok
  ELSE IF st /\ ~MatchesSheetNameRe(Head(sheet_names))
       THEN Err("StrictSheetName", Head(sheet_names))
  ELSE validate_sheet_names(Tail(sheet_names), st)

\* The alternatives of the pattern of line 46: the keys of sheet_data; joining
\* no key gives the empty alternative, which matches the empty name.
PatternKeys(sd) == IF sd = <<>> THEN <<<<>>>> ELSE sd

\* The first key of sd, in order, for which \{key\} matches at the head of s;
\* 0 when there is none: the alternation of the pattern of line 46.
RefAtHead(s, sd) ==
  LET hits == {i \in 1..Len(sd) : StartsWith(s, <<"{">> \o sd[i] \o <<"}">>)} IN
  IF hits = {} THEN 0 ELSE CHOOSE i \in hits : \A j \in hits : i <= j

\* pattern.sub(repl, query): each match is replaced by the table name the mapper
\* gives, or makes, for the sheet; done is the text already produced, and
\* [m, text] is the mapper and the whole text at the end.
RECURSIVE ResolveFrom(_, _, _, _)
ResolveFrom(s, sd, m, done) ==
  IF s = <<>> THEN [m |-> m, text |-> done]
  ELSE
    LET i == RefAtHead(s, sd) IN
    IF i = 0 THEN ResolveFrom(Tail(s), sd, m, Append(done, Head(s)))
    ELSE LET t == get_table_name(m, sd[i]) IN
         ResolveFrom(Drop(s, Len(sd[i]) + 2), sd, t.m, done \o t.ret)

SelectStarFrom == <<"S","E","L","E","C","T"," ","*"," ","F","R","O","M"," ">>

resolve_query(q, sd, m) ==
  IF q = None \/ q = <<>>
  THEN LET t == get_table_name(m, sd[1]) IN
       [m |-> t.m, text |-> SelectStarFrom \o t.ret]
  ELSE ResolveFrom(q, PatternKeys(sd), m, <<>>)

\* apply_limit; limit is None or the decimal text of the number.
apply_limit(sql, limit) ==
  IF limit = None THEN sql
  ELSE SelectStarFrom \o <<"(">> \o sql
         \o <<")"," ","s","u","b"," ","L","I","M","I","T"," ">> \o limit

\* Lines 104-105: a table is registered for every sheet, under the name the
\* mapper gives, or makes, for it.
RECURSIVE RegisterAll(_, _)
RegisterAll(sd, m) ==
  IF sd = <<>> THEN m ELSE RegisterAll(Tail(sd), get_table_name(m, Head(sd)).m)

StVSN == "validate_sheet_names"
StVQ == "validate_query"
StRQ == "resolve_query"
StAP == "apply_params"
StAL == "apply_limit"
StRun == "engine"

\* A call's result: the mapper afterwards, what the call returned or raised,
\* the stages it went through and the SQL texts it gave the engine.
Result(m, o, st, run) == [m |-> m, outcome |-> o, stages |-> st, run |-> run]

\* Lines 98-110, what follows validation: resolved is the mapper and text that
\* resolve_query left, before the stages already gone through. skip is
\* show_sql or dry_run; fails says whether the engine rejects the text.
Transform(resolved, before, sd, ps, limit, skip, fails) ==
  LET truthy == ps # NoDict /\ ps # <<>>
      p == IF truthy THEN apply_params(resolved.text, ps) ELSE OkText(resolved.text)
      st1 == before \o (IF truthy THEN <<StAP>> ELSE <<>>)
  IN IF p.kind = "error" THEN Result(resolved.m, p, st1, <<>>)
     ELSE
       LET sql == apply_limit(p.detail, limit) IN
       IF skip THEN Result(resolved.m, OkText(sql), st1 \o <<StAL>>, <<>>)
       ELSE Result(RegisterAll(sd, resolved.m),
                   IF fails THEN Err("RuntimeError", <<>>) ELSE OkText(sql),
                   st1 \o <<StAL, StRun>>, <<sql>>)

\* execute_query with the placeholders resolved before the validators run.
execute_query_ResolveFirst(m, sd, q, st, ps, limit, skip, fails) ==
  IF sd = <<>> THEN Result(m, Err("NoSheetData", <<>>), <<>>, <<>>)
  ELSE
    LET resolved == resolve_query(q, sd, m)
        names == validate_sheet_names(sd, st)
        valid == validate_query(q, Range(sd), st)
    IN IF names # Ok THEN Result(resolved.m, names, <<StRQ, StVSN>>, <<>>)
       ELSE IF valid # Ok THEN Result(resolved.m, valid, <<StRQ, StVSN, StVQ>>, <<>>)
       ELSE Transform(resolved, <<StRQ, StVSN, StVQ>>, sd, ps, limit, skip, fails)

\* execute_query on mapper m with the keys sd of sheet_data. The detail of an
\* ok outcome is the text logged as Resolved SQL.
execute_query(m, sd, q, st, ps, limit, skip, fails) ==
  IF sd = <<>> THEN Result(m, Err("NoSheetData", <<>>), <<>>, <<>>)
  ELSE
    LET names == validate_sheet_names(sd, st)
        valid == validate_query(q, Range(sd), st)
    IN IF names # Ok THEN Result(m, names, <<StVSN>>, <<>>)
       ELSE IF valid # Ok THEN Result(m, valid, <<StVSN, StVQ>>, <<>>)
       ELSE Transform(resolve_query(q, sd, m), <<StVSN, StVQ, StRQ>>,
                      sd, ps, limit, skip, fails)

\* The bound on how many fragments follow SELECT in an executed query.
MaxExecAtoms == 2

SheetS == <<"S">>
SheetT == <<"T">>
Sheet1 == <<"1">>

ExecAtoms == {<<"{","S","}">>, <<"{","T","}">>, <<"S","e","t">>, <<":","a">>}

\* None, the empty text, a DELETE, and SELECT followed by fragments.
ExecQueries ==
  {None, <<>>, DeleteQuery} \cup {KwSELECT \o b : b \in Bodies(ExecAtoms, MaxExecAtoms)}

\* The keys of the sheet_data an execute_query call is given.
ExecSheets ==
  {<<>>, <<SheetS>>, <<SheetS, SheetT>>, <<SheetT, SheetS>>, <<SheetS, Sheet1>>}

ExecParams == {NoDict, <<<<<<"a">>, <<"v">>>>>>, <<<<<<"a">>, <<BSL, "1">>>>>>}

ExecLimits == {None, <<"5">>}

\* sheet_io.load_excel_sheets registers a loaded sheet with the mapper.
LoadSheet(n) ==
  /\ outcome = NoCall
  /\ n \in Range(sheet_data)
  /\ AddSheet(n)

ExecuteQuery(st, limit, skip, fails) ==
  /\ outcome = NoCall
  /\ \E r \in {execute_query(Mapper, sheet_data, query, st, params, limit, skip, fails)} :
       /\ name_map' = r.m.name_map
       /\ reverse_map' = r.m.reverse_map
       /\ counter' = r.m.counter
       /\ outcome' = r.outcome
       /\ stages' = r.stages
       /\ engine' = engine \o r.run
  /\ strict' = st
  /\ UNCHANGED <<ret, call, query, params, all_sheets, sheet_data, orig_to_alias>>
  /\ UNCHANGED otherVars

ExecInit ==
  /\ InitMapper /\ InitOther
  /\ all_sheets = <<>> /\ orig_to_alias = <<>> /\ engine = <<>>
  /\ sheet_data \in ExecSheets
  /\ query \in ExecQueries
  /\ params \in ExecParams
  /\ strict = FALSE
  /\ outcome = NoCall
  /\ stages = <<>>

ExecNext ==
  \/ \E n \in {SheetS, SheetT, Sheet1} : LoadSheet(n)
  \/ \E st \in BOOLEAN, limit \in ExecLimits, skip \in BOOLEAN, fails \in BOOLEAN :
       ExecuteQuery(st, limit, skip, fails)

SpecExec == ExecInit /\ [][ExecNext]_vars

\* The step is a call of execute_query with sheets.
ExecStep == outcome = NoCall /\ outcome' # NoCall /\ sheet_data # <<>>

\* What the two validators say of the call's arguments.
ValidationOf(sd, q, st) ==
  IF validate_sheet_names(sd, st) # Ok THEN validate_sheet_names(sd, st)
  ELSE validate_query(q, Range(sd), st)

ValidationStages == {StVSN, StVQ}

(***************************************************************************)
(* C8: when validate_sheet_names or validate_query fails in execute_query, *)
(* the call raises that error having gone through no stage but the         *)
(* validators (no resolve_query, apply_params, apply_limit, engine run),   *)
(* and name_map, reverse_map and counter are as they were before the call. *)
(***************************************************************************)
C8_ValidationAbortsFirst ==
  [][(ExecStep /\ ValidationOf(sheet_data, query, strict') # Ok)
       => /\ outcome' = ValidationOf(sheet_data, query, strict')
          /\ \A i \in 1..Len(stages') : stages'[i] \in ValidationStages
          /\ engine' = engine
          /\ name_map' = name_map
          /\ reverse_map' = reverse_map
          /\ counter' = counter]_vars

\* A query with a placeholder of a sheet the mapper does not hold yet is
\* refused for its keyword, and the mapper still holds nothing.
C8_Witness ==
  /\ sheet_data = <<SheetS>>
  /\ query = KwSELECT \o <<"{","S","}","S","e","t">>
  /\ outcome = Err("ForbiddenToken", <<"S","E","T">>)
  /\ stages = <<StVSN, StVQ>>
  /\ DOMAIN name_map = {}
  /\ engine = <<>>

(***************************************************************************)
(* resolve_query on its own                                                *)
(***************************************************************************)
\* The bound on how many fragments a query given to resolve_query has.
MaxResolveAtoms == 3

SheetLowS == <<"s">>

\* Placeholders of the sheets S and s and of no sheet, lone braces, other text.
ResolveAtoms ==
  {<<"{","S","}">>, <<"{","s","}">>, <<"{","T","}">>, <<"{","}">>, <<"{">>, <<"}">>,
   <<" ","x">>}

ResolveQueries == Bodies(ResolveAtoms, MaxResolveAtoms) \cup {None}

\* The keys of the sheet_data a resolve_query call is given.
ResolveSheets == {<<>>, <<SheetS>>, <<SheetS, SheetLowS>>, <<SheetLowS, SheetS>>}

\* A call resolve_query(query, sheet_data, mapper).
ResolveQuery ==
  /\ outcome = NoCall
  /\ IF sheet_data = <<>> /\ (query = None \/ query = <<>>)
     THEN \* line 42: next() of an exhausted iterator
          /\ outcome' = Err("StopIteration", <<>>)
          /\ UNCHANGED <<name_map, reverse_map, counter>>
     ELSE \E r \in {resolve_query(query, sheet_data, Mapper)} :
            /\ name_map' = r.m.name_map
            /\ reverse_map' = r.m.reverse_map
            /\ counter' = r.m.counter
            /\ outcome' = OkText(r.text)
  /\ stages' = <<StRQ>>
  /\ UNCHANGED <<ret, call, query, strict, params, all_sheets, sheet_data,
                 orig_to_alias, engine>>
  /\ UNCHANGED otherVars

ResolveInit ==
  /\ InitMapper /\ InitOther
  /\ all_sheets = <<>> /\ orig_to_alias = <<>> /\ engine = <<>>
  /\ sheet_data \in ResolveSheets
  /\ query \in ResolveQueries
  /\ params = NoDict
  /\ strict = FALSE
  /\ outcome = NoCall
  /\ stages = <<>>

ResolveNext ==
  \/ \E n \in {SheetS, SheetLowS} : LoadSheet(n)
  \/ ResolveQuery

SpecResolve == ResolveInit /\ [][ResolveNext]_vars

Resolved == outcome # NoCall /\ stages = <<StRQ>>

\* The text between the brace at the head of s and the next closing brace;
\* None when s does not start with a brace or has no closing brace.
BraceName(s) ==
  IF s = <<>> \/ Head(s) # "{" \/ IndexFrom(s, "}", 2) = 0 THEN None
  ELSE SubSeq(s, 2, IndexFrom(s, "}", 2) - 1)

\* s with each {Name} of a name in scope replaced by ids[Name], all else kept.
RECURSIVE WithIdentifiers(_, _, _)
WithIdentifiers(s, scope, ids) ==
  IF s = <<>> THEN <<>>
  ELSE IF BraceName(s) \in scope
       THEN ids[BraceName(s)]
              \o WithIdentifiers(Drop(s, Len(BraceName(s)) + 2), scope, ids)
  ELSE <<Head(s)>> \o WithIdentifiers(Tail(s), scope, ids)

DQ == "\""
\* Typographic double quotes, which _normalize_smart_quotes makes plain.
LeftDQ == "U+201C"
RightDQ == "U+201D"

\* SMART_QUOTE_MAP, for the typographic quotes of the model.
SmartQuoteChar(c) == IF c \in {LeftDQ, RightDQ} THEN DQ ELSE c

normalize_smart_quotes(s) == [i \in 1..Len(s) |-> SmartQuoteChar(s[i])]

\* re.sub(r'\W+', '_', name): each run of characters that are not word
\* characters becomes one underscore.
RECURSIVE SquashNonWord(_, _)
SquashNonWord(s, in_run) ==
  IF s = <<>> THEN <<>>
  ELSE IF Head(s) \in WordChars THEN <<Head(s)>> \o SquashNonWord(Tail(s), FALSE)
  ELSE (IF in_run THEN <<>> ELSE <<"_">>) \o SquashNonWord(Tail(s), TRUE)

\* str.strip('_')
RECURSIVE StripUnderscores(_)
StripUnderscores(s) ==
  IF s = <<>> THEN s
  ELSE IF Head(s) = "_" THEN StripUnderscores(Tail(s))
  ELSE IF s[Len(s)] = "_" THEN StripUnderscores(Take(s, Len(s) - 1))
  ELSE s

\* Lines 273-276 of _alias_for: the alias before the duplicate check.
AliasBase(sheet_name) ==
  LET stripped == StripUnderscores(SquashNonWord(sheet_name, FALSE))
      base == IF stripped = <<>> THEN <<"s","h","e","e","t">> ELSE stripped
  IN IF base[1] \in AsciiLetter \cup {"_"} THEN base ELSE <<"t","_">> \o base

\* Lines 277-282: _1, _2, ... is appended while the alias, whatever its letter
\* case, is among the lower-cased aliases in use.
RECURSIVE UniqueAlias(_, _, _, _)
UniqueAlias(base, alias, suffix, taken_lower) ==
  IF LowerStr(alias) \notin taken_lower THEN alias
  ELSE UniqueAlias(base, base \o <<"_">> \o IntStr(suffix), suffix + 1, taken_lower)

\* _alias_for with the aliases o2a: [o2a, alias] afterwards.
alias_for(o2a, sheet_name) ==
  IF sheet_name \in DOMAIN o2a THEN [o2a |-> o2a, alias |-> o2a[sheet_name]]
  ELSE
    LET alias == UniqueAlias(AliasBase(sheet_name), AliasBase(sheet_name), 1,
                             {LowerStr(o2a[s]) : s \in DOMAIN o2a})
    IN [o2a |-> [s \in DOMAIN o2a \cup {sheet_name} |->
                   IF s = sheet_name THEN alias ELSE o2a[s]],
        alias |-> alias]

\* The loop of load_workbook over the sheet names, in workbook order.
RECURSIVE AliasAll(_, _)
AliasAll(sheets, o2a) ==
  IF sheets = <<>> THEN o2a
  ELSE AliasAll(Tail(sheets), alias_for(o2a, Head(sheets)).o2a)

\* Lines 326-335 of rewrite_identifiers: the scan of a quoted identifier from
\* position j; [j, chars] is where the closing quote stands (past the end of
\* sql when there is none) and the identifier's characters.
RECURSIVE QuotedIdent(_, _, _)
QuotedIdent(sql, j, ident_chars) ==
  IF j > Len(sql) THEN [j |-> j, chars |-> ident_chars]
  ELSE IF sql[j] = DQ
       THEN IF j + 1 <= Len(sql) /\ sql[j + 1] = DQ
            THEN QuotedIdent(sql, j + 2, Append(ident_chars, DQ))
            ELSE [j |-> j, chars |-> ident_chars]
  ELSE QuotedIdent(sql, j + 1, Append(ident_chars, sql[j]))

\* v.replace('"', '""')
RECURSIVE DoubleDQ(_)
DoubleDQ(v) ==
  IF v = <<>> THEN <<>>
  ELSE (IF Head(v) = DQ THEN <<DQ, DQ>> ELSE <<Head(v)>>) \o DoubleDQ(Tail(v))

Quoted(ident) == <<DQ>> \o DoubleDQ(ident) \o <<DQ>>

\* re.match(r'^[A-Za-z_][A-Za-z0-9_]*$', alias); the $ also matches before a
\* newline that ends the text.
IsBareIdentifier(alias) ==
  LET core == IF alias # <<>> /\ alias[Len(alias)] = "\n"
              THEN Take(alias, Len(alias) - 1) ELSE alias
  IN /\ core # <<>>
     /\ core[1] \in AsciiLetter \cup {"_"}
     /\ \A i \in 1..Len(core) : core[i] \in AsciiWord

\* Lines 340-351 with the else branch of line 347 taken for every alias: the
\* alias is always emitted in double quotes.
Replacement_AlwaysQuoted(ident, o2a) ==
  IF ident \in DOMAIN o2a /\ o2a[ident] # <<>> THEN Quoted(o2a[ident]) ELSE Quoted(ident)

\* Lines 340-351 without the test of line 345: the alias is always emitted
\* bare.
Replacement_AlwaysBare(ident, o2a) ==
  IF ident \in DOMAIN o2a /\ o2a[ident] # <<>> THEN o2a[ident] ELSE Quoted(ident)

\* Lines 340-351: what stands in place of the quoted identifier ident.
Replacement(ident, o2a) ==
  IF ident \in DOMAIN o2a /\ o2a[ident] # <<>>
  THEN IF IsBareIdentifier(o2a[ident]) THEN o2a[ident] ELSE Quoted(o2a[ident])
  ELSE Quoted(ident)

\* The loop of rewrite_identifiers without lines 305-321: a single quote is
\* copied like any other character and opens no literal.
RECURSIVE RewriteFrom_NoLiterals(_, _, _, _, _)
RewriteFrom_NoLiterals(sql, i, in_single, out, o2a) ==
  IF i > Len(sql) THEN out
  ELSE IF sql[i] = DQ THEN
    LET id == QuotedIdent(sql, i + 1, <<>>) IN
    IF id.j > Len(sql) THEN out \o SubSeq(sql, i, Len(sql))
    ELSE RewriteFrom_NoLiterals(sql, id.j + 1, FALSE,
                                out \o Replacement(id.chars, o2a), o2a)
  ELSE RewriteFrom_NoLiterals(sql, i + 1, FALSE, Append(out, sql[i]), o2a)

\* The loop of rewrite_identifiers without line 339: at an unmatched double
\* quote the scan ends and the rest of the text is not appended.
RECURSIVE RewriteFrom_DropsRest(_, _, _, _, _)
RewriteFrom_DropsRest(sql, i, in_single, out, o2a) ==
  IF i > Len(sql) THEN out
  ELSE IF in_single THEN
    IF sql[i] = "'"
    THEN IF i + 1 <= Len(sql) /\ sql[i + 1] = "'"
         THEN RewriteFrom_DropsRest(sql, i + 2, TRUE, out \o <<"'", "'">>, o2a)
         ELSE RewriteFrom_DropsRest(sql, i + 1, FALSE, Append(out, sql[i]), o2a)
    ELSE RewriteFrom_DropsRest(sql, i + 1, TRUE, Append(out, sql[i]), o2a)
  ELSE IF sql[i] = "'"
       THEN RewriteFrom_DropsRest(sql, i + 1, TRUE, Append(out, sql[i]), o2a)
  ELSE IF sql[i] = DQ THEN
    LET id == QuotedIdent(sql, i + 1, <<>>) IN
    IF id.j > Len(sql) THEN out
    ELSE RewriteFrom_DropsRest(sql, id.j + 1, FALSE,
                               out \o Replacement(id.chars, o2a), o2a)
  ELSE RewriteFrom_DropsRest(sql, i + 1, FALSE, Append(out, sql[i]), o2a)

\* The while loop of rewrite_identifiers from position i (1-based), out being
\* the text produced so far.
RECURSIVE RewriteFrom(_, _, _, _, _)
RewriteFrom(sql, i, in_single, out, o2a) ==
  IF i > Len(sql) THEN out
  ELSE IF in_single THEN
    IF sql[i] = "'"
    THEN IF i + 1 <= Len(sql) /\ sql[i + 1] = "'"
         THEN RewriteFrom(sql, i + 2, TRUE, out \o <<"'", "'">>, o2a)
         ELSE RewriteFrom(sql, i + 1, FALSE, Append(out, sql[i]), o2a)
    ELSE RewriteFrom(sql, i + 1, TRUE, Append(out, sql[i]), o2a)
  ELSE IF sql[i] = "'" THEN RewriteFrom(sql, i + 1, TRUE, Append(out, sql[i]), o2a)
  ELSE IF sql[i] = DQ THEN
    LET id == QuotedIdent(sql, i + 1, <<>>) IN
    IF id.j > Len(sql) THEN out \o SubSeq(sql, i, Len(sql))
    ELSE RewriteFrom(sql, id.j + 1, FALSE, out \o Replacement(id.chars, o2a), o2a)
  ELSE RewriteFrom(sql, i + 1, FALSE, Append(out, sql[i]), o2a)

rewrite_identifiers(sql, o2a) ==
  IF DOMAIN o2a = {} THEN sql ELSE RewriteFrom(sql, 1, FALSE, <<>>, o2a)

\* p in s
Contains(s, p) ==
  \E i \in 0..(Len(s) - Len(p)) : SubSeq(s, i + 1, i + Len(p)) = p

\* re.search(rf'\b{re.escape(p)}\b', s) for a p of word characters.
ContainsWord(s, p) ==
  \E i \in 0..(Len(s) - Len(p)) :
    /\ SubSeq(s, i + 1, i + Len(p)) = p
    /\ (i = 0 \/ s[i] \notin WordChars)
    /\ (i + Len(p) = Len(s) \/ s[i + Len(p) + 1] \notin WordChars)

\* _normalize_sheet: the first sheet with this name whatever the letter case,
\* None when there is none.
normalize_sheet(all, sheet_name) ==
  LET hits == {i \in 1..Len(all) : LowerStr(all[i]) = LowerStr(sheet_name)} IN
  IF hits = {} THEN None ELSE all[CHOOSE i \in hits : \A j \in hits : i <= j]

\* A session's sheets: those of the workbook, those loaded, and the aliases.
Sess(all, sd, o2a) == [all_sheets |-> all, sheet_data |-> sd, orig_to_alias |-> o2a]

\* open_sheet: the session afterwards and whether it raised. The workbook
\* holds the sheets of all_sheets and no other; parsing a sheet it holds
\* succeeds.
open_sheet(s, sheet_name) ==
  IF s.all_sheets = <<>> THEN [s |-> s, raised |-> TRUE]
  ELSE
    LET norm == normalize_sheet(s.all_sheets, sheet_name) IN
    IF norm = None THEN [s |-> s, raised |-> TRUE]
    ELSE IF norm \in Range(s.sheet_data) THEN [s |-> s, raised |-> FALSE]
    ELSE [s |-> Sess(s.all_sheets, Append(s.sheet_data, norm),
                     alias_for(s.orig_to_alias, norm).o2a),
          raised |-> FALSE]

\* Lines 659-663 of _auto_load: the text names the sheet, between double
\* quotes or by its alias, whatever the letter case.
Mentions(lower_sql, sheet, alias) ==
  \/ Contains(lower_sql, LowerStr(<<DQ>> \o sheet \o <<DQ>>))
  \/ ContainsWord(lower_sql, LowerStr(alias))

\* The loop of _auto_load over the sheets still to visit.
RECURSIVE AutoLoadEach(_, _, _)
AutoLoadEach(sheets, s, lower_sql) ==
  IF sheets = <<>> THEN s
  ELSE IF Head(sheets) \in Range(s.sheet_data)
       THEN AutoLoadEach(Tail(sheets), s, lower_sql)
  ELSE
    LET a == alias_for(s.orig_to_alias, Head(sheets))
        s1 == IF Head(sheets) \in DOMAIN s.orig_to_alias
                   /\ s.orig_to_alias[Head(sheets)] # <<>>
              THEN s ELSE Sess(s.all_sheets, s.sheet_data, a.o2a)
    IN IF Mentions(lower_sql, Head(sheets), a.alias)
       THEN AutoLoadEach(Tail(sheets), open_sheet(s1, Head(sheets)).s, lower_sql)
       ELSE AutoLoadEach(Tail(sheets), s1, lower_sql)

auto_load(s, sql_text) ==
  IF s.all_sheets = <<>> THEN s
  ELSE AutoLoadEach(s.all_sheets, s, LowerStr(sql_text))

StNorm == "normalize_smart_quotes"
StLoad == "auto_load"
StRewrite == "rewrite_identifiers"

\* run_query(sql) in session s with the parameters ps: the session afterwards,
\* what the call came to, the stages gone through and the texts given to
\* con.execute. No template is set. fails says whether the engine rejects the
\* text; run_query prints the error and returns.
run_query(s, sql, ps, fails) ==
  IF sql = <<>> THEN [s |-> s, outcome |-> Ok, stages |-> <<>>, run |-> <<>>]
  ELSE
    LET normal == normalize_smart_quotes(sql)
        s1 == auto_load(s, normal)
        rewritten == rewrite_identifiers(normal, s1.orig_to_alias)
        truthy == ps # NoDict /\ ps # <<>>
        p == IF truthy THEN apply_params(rewritten, ps) ELSE OkText(rewritten)
        st == <<StNorm, StLoad, StRewrite>> \o (IF truthy THEN <<StAP>> ELSE <<>>)
    IN IF p.kind = "error"
       THEN [s |-> s1, outcome |-> Err("ParamSubstitution", <<>>), stages |-> st,
             run |-> <<>>]
       ELSE [s |-> s1,
             outcome |-> IF fails THEN Err("EngineError", <<>>) ELSE OkText(p.detail),
             stages |-> Append(st, StRun), run |-> <<p.detail>>]

Session == Sess(all_sheets, sheet_data, orig_to_alias)

\* The bound on how many texts the session gives the engine.
MaxRuns == 2

\* \load <file>: load_workbook with the sheet names of the file.
LoadWorkbook(sheets) ==
  /\ all_sheets' = sheets
  /\ sheet_data' = <<>>
  /\ orig_to_alias' = AliasAll(sheets, <<>>)
  /\ UNCHANGED <<engine, mapperVars, callVars>>
  /\ UNCHANGED otherVars

\* \open <sheet>
OpenSheet(n) ==
  /\ \E r \in {open_sheet(Session, n)} :
       /\ all_sheets' = r.s.all_sheets
       /\ sheet_data' = r.s.sheet_data
       /\ orig_to_alias' = r.s.orig_to_alias
       /\ outcome' = IF r.raised THEN Err("OpenFailed", n) ELSE Ok
  /\ stages' = <<"open_sheet">>
  /\ UNCHANGED <<engine, mapperVars, query, strict, params>>
  /\ UNCHANGED otherVars

\* \clear
ClearSession ==
  /\ sheet_data' = <<>>
  /\ UNCHANGED <<all_sheets, orig_to_alias, engine, mapperVars, callVars>>
  /\ UNCHANGED otherVars

\* A text entered at the prompt and flushed to run_query.
RunQuery(sql, fails) ==
  /\ Len(engine) < MaxRuns
  /\ \E r \in {run_query(Session, sql, params, fails)} :
       /\ all_sheets' = r.s.all_sheets
       /\ sheet_data' = r.s.sheet_data
       /\ orig_to_alias' = r.s.orig_to_alias
       /\ outcome' = r.outcome
       /\ stages' = r.stages
       /\ engine' = engine \o r.run
  /\ query' = sql
  /\ UNCHANGED <<strict, params, mapperVars>>
  /\ UNCHANGED otherVars

\* Sheet names of the workbooks of the model.
SheetS1 == <<"S"," ","1">>
SheetS_1 == <<"S","_","1">>
SheetE == <<NonAsciiUp>>
SheetSet == <<"S","e","t">>

\* The sheet lists of the workbooks that \load is given.
Workbooks ==
  {<<SheetS1>>, <<SheetS1, SheetS_1>>, <<SheetS_1, SheetS1>>, <<SheetE, SheetSet>>}

\* The names \open is given: a sheet, a sheet in another letter case, no sheet.
OpenNames == {SheetS1, <<"s"," ","1">>, <<"n","o">>}

\* Texts entered at the prompt.
QSelectOne ==
  <<"S","E","L","E","C","T"," ","1">>
QDropTable ==
  <<"D","R","O","P"," ","T","A","B","L","E"," ","S","_","1">>
QFromQuoted ==
  <<"S","E","L","E","C","T"," ","*"," ","F","R","O","M"," ",DQ,"S"," ","1",DQ>>
QFromAlias ==
  <<"s","e","l","e","c","t"," ","*"," ","f","r","o","m"," ","s","_","1">>
QLiteral ==
  <<"S","E","L","E","C","T"," ","'","a"," ",DQ,"S"," ","1",DQ," ","'","'","b","'",","," ",DQ,"S"," ","1",DQ>>
QUnmatched ==
  <<"S","E","L","E","C","T"," ",DQ,"S"," ","1">>
QSmartQuotes ==
  <<"S","E","L","E","C","T"," ",LeftDQ,NonAsciiUp,RightDQ>>
QUnknownIdent ==
  <<"S","E","L","E","C","T"," ",DQ,"x",DQ,DQ,"y",DQ>>
QDeleteFrom ==
  <<"D","E","L","E","T","E"," ","F","R","O","M"," ",DQ,"S"," ","1",DQ>>
QSelectThenDrop ==
  <<"S","E","L","E","C","T"," ","1",";"," ","D","R","O","P"," ","T","A","B","L","E"," ","S","_","1">>

ReplQueries ==
  {QSelectOne, QDropTable, QFromQuoted, QFromAlias,
   QLiteral, QUnmatched, QSmartQuotes, QUnknownIdent,
   QDeleteFrom, QSelectThenDrop}

ReplInit == InitMapper /\ InitCall /\ InitSession /\ InitOther

ReplNext ==
  \/ \E sheets \in Workbooks : LoadWorkbook(sheets)
  \/ \E n \in OpenNames : OpenSheet(n)
  \/ ClearSession
  \/ \E sql \in ReplQueries, fails \in BOOLEAN : RunQuery(sql, fails)

SpecRepl == ReplInit /\ [][ReplNext]_vars

\* The last command was a text that reached the engine.
ReachedEngine == stages # <<>> /\ stages[Len(stages)] = StRun

\* The validator refuses the text as no SELECT or for a forbidden keyword.
Refused(q, sheets, st) ==
  validate_query(q, sheets, st).error \in {"NotASelect", "ForbiddenToken"}

(***************************************************************************)
(* C9: in the interactive session a text that the query validator refuses, *)
(* as no SELECT statement or for a forbidden keyword, is never handed to   *)
(* the query engine: no text that reached the engine is one the validator  *)
(* refuses.                                                                *)
(***************************************************************************)
C9_EngineGetsOnlyValidated ==
  ReachedEngine => ~Refused(query, Range(all_sheets), strict)

(***************************************************************************)
(* Session.rewrite_identifiers on its own                                  *)
(***************************************************************************)
\* The bound on how many fragments a text given to rewrite_identifiers has.
MaxRewriteAtoms == 4

\* Quotes of both kinds, quoted sheet names, a quoted name with an escaped
\* quote, plain text; two of the quoted names come after a space, so that they
\* do not run into a quoted name before them.
RewriteAtoms ==
  {<<"'">>, <<DQ>>, <<DQ,"S"," ","1",DQ>>, <<" ",DQ,NonAsciiUp,DQ>>,
   <<" ",DQ,"x",DQ,DQ,"y",DQ>>, <<"x">>}

RewriteTexts == Bodies(RewriteAtoms, MaxRewriteAtoms)

\* A call sess.rewrite_identifiers(query).
RewriteIdentifiers ==
  /\ outcome = NoCall
  /\ outcome' = OkText(rewrite_identifiers(query, orig_to_alias))
  /\ stages' = <<StRewrite>>
  /\ UNCHANGED <<query, strict, params, mapperVars, sessionVars>>
  /\ UNCHANGED otherVars

\* A second call, on the text the first call returned.
RewriteAgain ==
  /\ stages = <<StRewrite>>
  /\ outcome' = OkText(rewrite_identifiers(outcome.detail, orig_to_alias))
  /\ stages' = <<StRewrite, StRewrite>>
  /\ UNCHANGED <<query, strict, params, mapperVars, sessionVars>>
  /\ UNCHANGED otherVars

\* A sheet whose name is the alias of the sheet SheetE.
SheetTE == <<"t","_",NonAsciiUp>>

\* The sheet lists of the workbooks of the sessions: none, those of \load, and
\* two with a sheet whose alias needs quotes.
RewriteWorkbooks ==
  Workbooks \cup {<<>>, <<SheetS1, SheetE>>, <<SheetE, SheetTE>>}

\* A session with no workbook or after load_workbook, and a text.
RewriteInit ==
  /\ InitMapper /\ InitOther
  /\ all_sheets \in RewriteWorkbooks
  /\ orig_to_alias = AliasAll(all_sheets, <<>>)
  /\ sheet_data = <<>>
  /\ engine = <<>>
  /\ query \in RewriteTexts
  /\ params = <<>>
  /\ strict = FALSE
  /\ outcome = NoCall
  /\ stages = <<>>

RewriteNext == RewriteIdentifiers \/ RewriteAgain

SpecRewrite == RewriteInit /\ [][RewriteNext]_vars

Rewritten == outcome # NoCall /\ stages = <<StRewrite>>

\* The position, from j on, of the double quote that ends a quoted identifier,
\* two double quotes in a row being an escaped quote; 0 when there is none.
RECURSIVE ClosingDQ(_, _)
ClosingDQ(s, j) ==
  IF j > Len(s) THEN 0
  ELSE IF s[j] # DQ THEN ClosingDQ(s, j + 1)
  ELSE IF j + 1 <= Len(s) /\ s[j + 1] = DQ THEN ClosingDQ(s, j + 2)
  ELSE j

Part(is_ident, text) == [ident |-> is_ident, text |-> text]

\* The parts of s from position i on: each complete double-quoted identifier
\* outside single-quoted literals is one part, every other character is a
\* part of its own. in_lit says that position i is inside a literal.
RECURSIVE Parts(_, _, _)
Parts(s, i, in_lit) ==
  IF i > Len(s) THEN <<>>
  ELSE IF in_lit /\ s[i] = "'" /\ i + 1 <= Len(s) /\ s[i + 1] = "'"
       THEN <<Part(FALSE, <<"'">>), Part(FALSE, <<"'">>)>> \o Parts(s, i + 2, TRUE)
  ELSE IF s[i] = "'" THEN <<Part(FALSE, <<"'">>)>> \o Parts(s, i + 1, ~in_lit)
  ELSE IF ~in_lit /\ s[i] = DQ /\ ClosingDQ(s, i + 1) # 0
       THEN <<Part(TRUE, SubSeq(s, i, ClosingDQ(s, i + 1)))>>
              \o Parts(s, ClosingDQ(s, i + 1) + 1, FALSE)
  ELSE <<Part(FALSE, <<s[i]>>)>> \o Parts(s, i + 1, in_lit)

\* out is the parts in order, with any text in place of each identifier part.
RECURSIVE Fits(_, _)
Fits(out, parts) ==
  IF parts = <<>> THEN out = <<>>
  ELSE IF ~Head(parts).ident
       THEN out # <<>> /\ Head(out) = Head(parts).text[1] /\ Fits(Tail(out), Tail(parts))
  ELSE IF Len(parts) >= 2 /\ parts[2].ident THEN Fits(out, Tail(parts))
  ELSE \E k \in 0..Len(out) : Fits(Drop(out, k), Tail(parts))

(***************************************************************************)
(* C19: rewrite_identifiers changes text only where a complete             *)
(* double-quoted identifier stands outside single-quoted literals: every   *)
(* character inside a literal, a quoted sheet name there included, and     *)
(* every character outside such identifiers comes out unchanged and in     *)
(* order; text without such an identifier comes out as it went in.         *)
(***************************************************************************)
C19_OnlyIdentifiersChange ==
  Rewritten =>
    /\ Fits(outcome.detail, Parts(query, 1, FALSE))
    /\ (\A i \in 1..Len(Parts(query, 1, FALSE)) : ~Parts(query, 1, FALSE)[i].ident)
         => outcome.detail = query

\* A quoted sheet name inside a literal stays, the same name after it is
\* replaced by its alias.
C19_Witness ==
  /\ Rewritten
  /\ all_sheets = <<SheetS1>>
  /\ query = <<"'",DQ,"S"," ","1",DQ,"'",DQ,"S"," ","1",DQ>>
  /\ outcome.detail = <<"'",DQ,"S"," ","1",DQ,"'","S","_","1">>

\* v with every two double quotes in a row read as one.
RECURSIVE UndoubleDQ(_)
UndoubleDQ(v) ==
  IF v = <<>> THEN <<>>
  ELSE IF Head(v) = DQ /\ Len(v) >= 2 /\ v[2] = DQ
       THEN <<DQ>> \o UndoubleDQ(SubSeq(v, 3, Len(v)))
  ELSE <<Head(v)>> \o UndoubleDQ(Tail(v))

\* What is to stand for the quoted identifier text under the alias table.
EmittedFor(text, table) ==
  LET key == UndoubleDQ(SubSeq(text, 2, Len(text) - 1)) IN
  IF key \notin DOMAIN table THEN text
  ELSE IF IsSafeIdentifier(table[key]) THEN table[key]
  ELSE <<DQ>> \o DoubleDQ(table[key]) \o <<DQ>>

EmittedParts(parts, table) ==
  Concat([i \in 1..Len(parts) |->
            IF parts[i].ident THEN EmittedFor(parts[i].text, table)
            ELSE parts[i].text])

(***************************************************************************)
(* C20: for each complete double-quoted identifier outside a literal, with *)
(* two double quotes inside it read as one, rewrite_identifiers emits the  *)
(* alias when the unescaped text is a key of the alias table, bare when    *)
(* the alias matches ^[A-Za-z_][A-Za-z0-9_]*$ and otherwise double-quoted  *)
(* with its quotes doubled, and emits the quoted identifier as it stood    *)
(* when the text is not a key.                                             *)
(***************************************************************************)
C20_AliasOrOriginal ==
  Rewritten =>
    outcome.detail = EmittedParts(Parts(query, 1, FALSE), orig_to_alias)

\* One identifier gets a bare alias, one a quoted alias, one is no key.
C20_Witness ==
  /\ Rewritten
  /\ all_sheets = <<SheetS1, SheetE>>
  /\ query = <<DQ,"S"," ","1",DQ, " ",DQ,NonAsciiUp,DQ, " ",DQ,"x",DQ,DQ,"y",DQ>>
  /\ outcome.detail = <<"S","_","1", " ",DQ,"t","_",NonAsciiUp,DQ,
                        " ",DQ,"x",DQ,DQ,"y",DQ>>

RewrittenTwice == stages = <<StRewrite, StRewrite>>

SecondPass == stages = <<StRewrite>> /\ stages' = <<StRewrite, StRewrite>>

\* No alias that is emitted in double quotes is itself a sheet name.
NoQuotedAliasIsAKey(table) ==
  \A k \in DOMAIN table :
    ~IsSafeIdentifier(table[k]) => table[k] \notin DOMAIN table

(***************************************************************************)
(* C21: rewrite_identifiers applied to its own result gives that result    *)
(* again, in a session none of whose quoted aliases is itself a sheet      *)
(* name: what the first pass turned into an alias passes through the       *)
(* second pass unchanged.                                                  *)
(***************************************************************************)
C21_IdempotentUnlessAliasIsAKey ==
  [][(SecondPass /\ NoQuotedAliasIsAKey(orig_to_alias))
       => outcome'.detail = outcome.detail]_vars

\* C21 as stated, for every alias table the session can hold.
C21_IdempotentAlways ==
  [][SecondPass => outcome'.detail = outcome.detail]_vars

\* The second pass over the quoted alias of the sheet SheetE, which is no sheet
\* name, and over a bare alias.
C21_Witness ==
  /\ RewrittenTwice
  /\ all_sheets = <<SheetS1, SheetE>>
  /\ query = <<DQ,"S"," ","1",DQ, " ",DQ,NonAsciiUp,DQ>>
  /\ outcome.detail = <<"S","_","1", " ",DQ,"t","_",NonAsciiUp,DQ>>

\* The position of the quote of s, from position i on, that is never closed:
\* the single quote that opens a literal without end (lit is its position, 0
\* outside a literal) or the double quote that opens an identifier without
\* end; 0 when every quote is closed.
RECURSIVE UnmatchedQuote(_, _, _)
UnmatchedQuote(s, i, lit) ==
  IF i > Len(s) THEN lit
  ELSE IF lit # 0 THEN
    IF s[i] # "'" THEN UnmatchedQuote(s, i + 1, lit)
    ELSE IF i + 1 <= Len(s) /\ s[i + 1] = "'" THEN UnmatchedQuote(s, i + 2, lit)
    ELSE UnmatchedQuote(s, i + 1, 0)
  ELSE IF s[i] = "'" THEN UnmatchedQuote(s, i + 1, i)
  ELSE IF s[i] = DQ THEN
    IF ClosingDQ(s, i + 1) = 0 THEN i
    ELSE UnmatchedQuote(s, ClosingDQ(s, i + 1) + 1, 0)
  ELSE UnmatchedQuote(s, i + 1, 0)

(***************************************************************************)
(* C22: rewrite_identifiers never fails; on a text with a single-quoted    *)
(* literal or a double-quoted identifier that is not closed, the text from *)
(* the unmatched quote to the end comes out verbatim, after the text       *)
(* before it with its completed identifiers rewritten.                     *)
(***************************************************************************)
C22_VerbatimFromUnmatchedQuote ==
  Rewritten =>
    /\ outcome.kind = "ok"
    /\ LET p == UnmatchedQuote(query, 1, 0) IN
       p # 0 =>
         outcome.detail =
           EmittedParts(Parts(SubSeq(query, 1, p - 1), 1, FALSE), orig_to_alias)
             \o SubSeq(query, p, Len(query))

\* An identifier is rewritten, then a double quote is never closed: it and the
\* single quote after it come out as they stood.
C22_Witness ==
  /\ Rewritten
  /\ all_sheets = <<SheetS1>>
  /\ query = <<DQ,"S"," ","1",DQ, "x", DQ, "'">>
  /\ UnmatchedQuote(query, 1, 0) = 7
  /\ outcome.detail = <<"S","_","1", "x", DQ, "'">>

(***************************************************************************)
(* The expression evaluator (core/expr_eval.py)                            *)
(*                                                                         *)
(* A value is a record [t, n, d, s]: t is the name of its Python type, n/d *)
(* the number it stands for in lowest terms (d = 1 but for a float), s the *)
(* behaviour of a function. An expression is the tree that ast.parse gives *)
(* for its text, a record whose field k is the name of the node class; a   *)
(* text that ast.parse rejects is the tree SyntaxErrorText. An error       *)
(* message is a sequence of its pieces.                                    *)
(***************************************************************************)
VInt(n) == [t |-> "int", n |-> n, d |-> 1, s |-> ""]
VBool(b) == [t |-> "bool", n |-> IF b THEN 1 ELSE 0, d |-> 1, s |-> ""]
VNone == [t |-> "NoneType", n |-> 0, d |-> 1, s |-> ""]

Abs(n) == IF n < 0 THEN -n ELSE n

RECURSIVE Gcd(_, _)
Gcd(a, b) == IF b = 0 THEN a ELSE Gcd(b, a % b)

\* The float n/d, d # 0.
VFloat(n, d) ==
  LET g == Gcd(Abs(n), Abs(d))
      sign == IF d < 0 THEN -1 ELSE 1
  IN [t |-> "float", n |-> sign * (n \div g), d |-> sign * (d \div g), s |-> ""]

\* A function that returns the integer n whatever it is given, and one that
\* raises an exception with the message "boom".
Returns(n) == [t |-> "function", n |-> n, d |-> 1, s |-> "returns"]
Raises == [t |-> "function", n |-> 0, d |-> 1, s |-> "raises"]

IsNumber(v) == v.t \in {"int", "bool", "float"}

\* bool(v)
Truthy(v) == IF IsNumber(v) THEN v.n # 0 ELSE v.t = "function"

\* The nodes of ast.parse(expr, mode='eval').body.
Constant(v) == [k |-> "Constant", value |-> v]
Name(id) == [k |-> "Name", id |-> id]
BinOp(op, left, right) == [k |-> "BinOp", op |-> op, left |-> left, right |-> right]
UnaryOp(op, operand) == [k |-> "UnaryOp", op |-> op, operand |-> operand]
Compare(left, ops, comparators) ==
  [k |-> "Compare", left |-> left, ops |-> ops, comparators |-> comparators]
BoolOp(op, values) == [k |-> "BoolOp", op |-> op, values |-> values]
Call(func, args) == [k |-> "Call", func |-> func, args |-> args]
IfExp(test, body, orelse) ==
  [k |-> "IfExp", test |-> test, body |-> body, orelse |-> orelse]

\* lambda: 0, a node class that _eval_node does not know; its value is the
\* function it denotes.
LambdaZero == [k |-> "Lambda", value |-> Returns(0)]

\* A text that is no expression, such as "1 <": ast.parse raises SyntaxError.
SyntaxErrorText == [k |-> "SyntaxError"]

\* The outcome of evaluating a node: a value or an exception's message, and
\* the names under which functions were called so far.
Good(v, cs) == [ok |-> TRUE, val |-> v, err |-> <<>>, calls |-> cs]
Bad(e, cs) == [ok |-> FALSE, val |-> VNone, err |-> e, calls |-> cs]

\* SafeEval.OPERATORS, by the name of the ast class.
BinaryOperators == {"Add", "Sub", "Mult", "Div"}
UnaryOperators == {"USub", "UAdd", "Not"}
ComparisonOperators == {"Eq", "NotEq", "Lt", "LtE", "Gt", "GtE"}

OperatorSign(op) ==
  CASE op = "Add" -> "+" [] op = "Sub" -> "-" [] op = "Mult" -> "*"
    [] op = "Div" -> "/" [] op = "Lt" -> "<" [] op = "LtE" -> "<="
    [] op = "Gt" -> ">" [] op = "GtE" -> ">=" [] OTHER -> op

\* The result type of arithmetic on two numbers.
NumberOf(n, d, as_float) == IF as_float THEN VFloat(n, d) ELSE VInt(n)

\* operator.add, sub, mul, truediv on the values l and r.
ApplyBinary(op, l, r, cs) ==
  IF ~(IsNumber(l) /\ IsNumber(r))
  THEN Bad(<<"unsupported operand type(s) for ", OperatorSign(op), ": '",
             l.t, "' and '", r.t, "'">>, cs)
  ELSE LET fl == l.t = "float" \/ r.t = "float" IN
       CASE op = "Add" -> Good(NumberOf(l.n * r.d + r.n * l.d, l.d * r.d, fl), cs)
         [] op = "Sub" -> Good(NumberOf(l.n * r.d - r.n * l.d, l.d * r.d, fl), cs)
         [] op = "Mult" -> Good(NumberOf(l.n * r.n, l.d * r.d, fl), cs)
         [] op = "Div" ->
              IF r.n = 0
              THEN Bad(<<IF fl THEN "float division by zero" ELSE "division by zero">>, cs)
              ELSE Good(VFloat(l.n * r.d, l.d * r.n), cs)

\* operator.neg, pos, not_ on the value v.
ApplyUnary(op, v, cs) ==
  IF op = "Not" THEN Good(VBool(~Truthy(v)), cs)
  ELSE IF ~IsNumber(v)
       THEN Bad(<<"bad operand type for unary ", IF op = "USub" THEN "-" ELSE "+",
                  ": '", v.t, "'">>, cs)
  ELSE IF v.t = "float" THEN Good(VFloat(IF op = "USub" THEN -v.n ELSE v.n, v.d), cs)
  ELSE Good(VInt(IF op = "USub" THEN -v.n ELSE v.n), cs)

\* operator.eq, ne, lt, le, gt, ge and the identity test on l and r.
ApplyComparison(op, l, r, cs) ==
  CASE op = "Is" -> Good(VBool(l = r), cs)
    [] op = "Eq" ->
         Good(VBool(IF IsNumber(l) /\ IsNumber(r) THEN l.n * r.d = r.n * l.d
                    ELSE l = r), cs)
    [] op = "NotEq" ->
         Good(VBool(IF IsNumber(l) /\ IsNumber(r) THEN l.n * r.d # r.n * l.d
                    ELSE l # r), cs)
    [] OTHER ->
         IF ~(IsNumber(l) /\ IsNumber(r))
         THEN Bad(<<"'", OperatorSign(op), "' not supported between instances of '",
                    l.t, "' and '", r.t, "'">>, cs)
         ELSE Good(VBool(CASE op = "Lt" -> l.n * r.d < r.n * l.d
                           [] op = "LtE" -> l.n * r.d <= r.n * l.d
                           [] op = "Gt" -> l.n * r.d > r.n * l.d
                           [] op = "GtE" -> l.n * r.d >= r.n * l.d), cs)

\* f(*args) for the value f under the name it was called by.
CallValue(name, f, cs) ==
  IF f.t # "function" THEN Bad(<<"'", f.t, "' object is not callable">>, cs)
  ELSE IF f.s = "raises" THEN Bad(<<"boom">>, Append(cs, name))
  ELSE Good(VInt(f.n), Append(cs, name))

RECURSIVE eval_node(_, _, _)
RECURSIVE eval_args(_, _, _)

\* Lines 85-95 without the return of line 93: every comparator is evaluated
\* and the pairs are combined at the end. held says that no pair failed yet.
RECURSIVE eval_compare_All(_, _, _, _, _, _)
eval_compare_All(left, ops, comparators, variables, cs, held) ==
  IF ops = <<>> THEN Good(VBool(held), cs)
  ELSE IF Head(ops) \notin ComparisonOperators
       THEN Bad(<<"Unsupported comparison operator: ", Head(ops)>>, cs)
  ELSE LET right == eval_node(Head(comparators), variables, cs) IN
       IF ~right.ok THEN right
       ELSE LET c == ApplyComparison(Head(ops), left, right.val, right.calls) IN
            IF ~c.ok THEN c
            ELSE eval_compare_All(right.val, Tail(ops), Tail(comparators), variables,
                                  right.calls, held /\ Truthy(c.val))

eval_compare_NoShortCircuit(left, ops, comparators, variables, cs) ==
  eval_compare_All(left, ops, comparators, variables, cs, TRUE)

\* The loop of lines 87-95: left is the value of the operand before the pair.
RECURSIVE eval_compare(_, _, _, _, _)
eval_compare(left, ops, comparators, variables, cs) ==
  IF ops = <<>> THEN Good(VBool(TRUE), cs)
  ELSE IF Head(ops) \notin ComparisonOperators
       THEN Bad(<<"Unsupported comparison operator: ", Head(ops)>>, cs)
  ELSE LET right == eval_node(Head(comparators), variables, cs) IN
       IF ~right.ok THEN right
       ELSE LET c == ApplyComparison(Head(ops), left, right.val, right.calls) IN
            IF ~c.ok THEN c
            ELSE IF ~Truthy(c.val) THEN Good(VBool(FALSE), right.calls)
            ELSE eval_compare(right.val, Tail(ops), Tail(comparators), variables,
                              right.calls)

\* Lines 96-111 as Python's own and / or: the operand that decides is the
\* result.
RECURSIVE eval_boolop_OperandValue(_, _, _, _)
eval_boolop_OperandValue(op, values, variables, cs) ==
  LET res == eval_node(Head(values), variables, cs) IN
  IF ~res.ok THEN res
  ELSE IF Len(values) = 1 \/ (op = "And") # Truthy(res.val) THEN res
  ELSE eval_boolop_OperandValue(op, Tail(values), variables, res.calls)

\* The loops of lines 100-111 over the operands of an And or an Or.
RECURSIVE eval_boolop(_, _, _, _)
eval_boolop(op, values, variables, cs) ==
  IF values = <<>> THEN Good(VBool(op = "And"), cs)
  ELSE LET res == eval_node(Head(values), variables, cs) IN
       IF ~res.ok THEN res
       ELSE IF op = "And" /\ ~Truthy(res.val) THEN Good(VBool(FALSE), res.calls)
       ELSE IF op # "And" /\ Truthy(res.val) THEN Good(VBool(TRUE), res.calls)
       ELSE eval_boolop(op, Tail(values), variables, res.calls)

\* Lines 119-121 with both branches evaluated before one is chosen.
eval_ifexp_BothBranches(node, variables, cs) ==
  LET condition == eval_node(node.test, variables, cs) IN
  IF ~condition.ok THEN condition
  ELSE LET b == eval_node(node.body, variables, condition.calls) IN
       IF ~b.ok THEN b
       ELSE LET o == eval_node(node.orelse, variables, b.calls) IN
            IF ~o.ok THEN o
            ELSE Good(IF Truthy(condition.val) THEN b.val ELSE o.val, o.calls)

\* Lines 119-121: the conditional expression.
eval_ifexp(node, variables, cs) ==
  LET condition == eval_node(node.test, variables, cs) IN
  IF ~condition.ok THEN condition
  ELSE IF Truthy(condition.val) THEN eval_node(node.body, variables, condition.calls)
  ELSE eval_node(node.orelse, variables, condition.calls)

\* Lines 112-118: a call of a name; keyword arguments are left out.
eval_call(node, variables, cs) ==
  IF node.func \notin DOMAIN variables
  THEN Bad(<<"Function '", node.func, "' is not defined">>, cs)
  ELSE LET args == eval_args(node.args, variables, cs) IN
       IF ~args.ok THEN args
       ELSE CallValue(node.func, variables[node.func], args.calls)

\* [self._eval_node(arg) for arg in node.args]; val is not used.
eval_args(args, variables, cs) ==
  IF args = <<>> THEN Good(VNone, cs)
  ELSE LET a == eval_node(Head(args), variables, cs) IN
       IF ~a.ok THEN a ELSE eval_args(Tail(args), variables, a.calls)

\* SafeEval._eval_node
eval_node(node, variables, cs) ==
  CASE node.k = "Constant" -> Good(node.value, cs)
    [] node.k = "Name" ->
         IF node.id \in DOMAIN variables THEN Good(variables[node.id], cs)
         ELSE Bad(<<"Name '", node.id, "' is not defined">>, cs)
    [] node.k = "BinOp" ->
         IF node.op \notin BinaryOperators
         THEN Bad(<<"Unsupported binary operator: ", node.op>>, cs)
         ELSE LET l == eval_node(node.left, variables, cs) IN
              IF ~l.ok THEN l
              ELSE LET r == eval_node(node.right, variables, l.calls) IN
                   IF ~r.ok THEN r ELSE ApplyBinary(node.op, l.val, r.val, r.calls)
    [] node.k = "UnaryOp" ->
         IF node.op \notin UnaryOperators
         THEN Bad(<<"Unsupported unary operator: ", node.op>>, cs)
         ELSE LET v == eval_node(node.operand, variables, cs) IN
              IF ~v.ok THEN v ELSE ApplyUnary(node.op, v.val, v.calls)
    [] node.k = "Compare" ->
         LET left == eval_node(node.left, variables, cs) IN
         IF ~left.ok THEN left
         ELSE eval_compare(left.val, node.ops, node.comparators, variables, left.calls)
    [] node.k = "BoolOp" -> eval_boolop(node.op, node.values, variables, cs)
    [] node.k = "Call" -> eval_call(node, variables, cs)
    [] node.k = "IfExp" -> eval_ifexp(node, variables, cs)
    [] OTHER -> Bad(<<"Unsupported node type: ", node.k>>, cs)

(***************************************************************************)
(* Python's eval of the same tree with the names as locals and no          *)
(* builtins: the fallback of line 62.                                      *)
(***************************************************************************)
RECURSIVE python_eval(_, _, _)

RECURSIVE python_compare(_, _, _, _, _)
python_compare(left, ops, comparators, variables, cs) ==
  LET right == python_eval(Head(comparators), variables, cs) IN
  IF ~right.ok THEN right
  ELSE LET c == ApplyComparison(Head(ops), left, right.val, right.calls) IN
       IF ~c.ok \/ Len(ops) = 1 \/ ~Truthy(c.val) THEN c
       ELSE python_compare(right.val, Tail(ops), Tail(comparators), variables,
                           right.calls)

RECURSIVE python_boolop(_, _, _, _)
python_boolop(op, values, variables, cs) ==
  LET res == python_eval(Head(values), variables, cs) IN
  IF ~res.ok THEN res
  ELSE IF Len(values) = 1 \/ (op = "And") # Truthy(res.val) THEN res
  ELSE python_boolop(op, Tail(values), variables, res.calls)

RECURSIVE python_args(_, _, _)
python_args(args, variables, cs) ==
  IF args = <<>> THEN Good(VNone, cs)
  ELSE LET a == python_eval(Head(args), variables, cs) IN
       IF ~a.ok THEN a ELSE python_args(Tail(args), variables, a.calls)

python_eval(node, variables, cs) ==
  CASE node.k = "SyntaxError" -> Bad(<<"invalid syntax (<string>, line 1)">>, cs)
    [] node.k = "Constant" -> Good(node.value, cs)
    [] node.k = "Name" ->
         IF node.id \in DOMAIN variables THEN Good(variables[node.id], cs)
         ELSE Bad(<<"name '", node.id, "' is not defined">>, cs)
    [] node.k = "BinOp" ->
         LET l == python_eval(node.left, variables, cs) IN
         IF ~l.ok THEN l
         ELSE LET r == python_eval(node.right, variables, l.calls) IN
              IF ~r.ok THEN r ELSE ApplyBinary(node.op, l.val, r.val, r.calls)
    [] node.k = "UnaryOp" ->
         LET v == python_eval(node.operand, variables, cs) IN
         IF ~v.ok THEN v ELSE ApplyUnary(node.op, v.val, v.calls)
    [] node.k = "Compare" ->
         LET left == python_eval(node.left, variables, cs) IN
         IF ~left.ok THEN left
         ELSE python_compare(left.val, node.ops, node.comparators, variables,
                             left.calls)
    [] node.k = "BoolOp" -> python_boolop(node.op, node.values, variables, cs)
    [] node.k = "Call" ->
         IF node.func \notin DOMAIN variables
         THEN Bad(<<"name '", node.func, "' is not defined">>, cs)
         ELSE LET args == python_args(node.args, variables, cs) IN
              IF ~args.ok THEN args
              ELSE CallValue(node.func, variables[node.func], args.calls)
    [] node.k = "IfExp" ->
         LET condition == python_eval(node.test, variables, cs) IN
         IF ~condition.ok THEN condition
         ELSE IF Truthy(condition.val)
              THEN python_eval(node.body, variables, condition.calls)
         ELSE python_eval(node.orelse, variables, condition.calls)
    [] node.k = "Lambda" -> Good(node.value, cs)

(***************************************************************************)
(* SafeEval.eval and evaluate_expression                                   *)
(***************************************************************************)
\* {**variables, **_CUSTOM_FUNCTIONS}: the later dict wins a shared key.
Bindings(variables, functions) ==
  [n \in DOMAIN variables \cup DOMAIN functions |->
     IF n \in DOMAIN functions THEN functions[n] ELSE variables[n]]

\* What a call gives back: a value, a returned text or a raised ValueError,
\* with the evaluators that ran and the functions that were called.
Returned(v, as, cs) ==
  [kind |-> "value", val |-> v, text |-> <<>>, attempts |-> as, calls |-> cs]
ReturnedText(m, as, cs) ==
  [kind |-> "text", val |-> VNone, text |-> m, attempts |-> as, calls |-> cs]
RaisedValueError(m, as, cs) ==
  [kind |-> "raised", val |-> VNone, text |-> m, attempts |-> as, calls |-> cs]

\* Lines 55-57: ast.parse and the restricted evaluation.
Restricted(e, bindings) ==
  IF e.k = "SyntaxError" THEN Bad(<<"invalid syntax (<unknown>, line 1)">>, <<>>)
  ELSE eval_node(e, bindings, <<>>)

\* SafeEval.eval with the fallback tried whatever the flag says.
eval_FallbackAlways(e, variables, functions, allow) ==
  LET first == Restricted(e, Bindings(variables, functions)) IN
  IF first.ok THEN Returned(first.val, <<"restricted">>, first.calls)
  ELSE LET second == python_eval(e, Bindings(variables, functions), first.calls) IN
       IF second.ok
       THEN Returned(second.val, <<"restricted", "fallback">>, second.calls)
       ELSE RaisedValueError(<<"Failed to evaluate expression: ">> \o first.err
                               \o <<" (fallback: ">> \o second.err \o <<")">>,
                             <<"restricted", "fallback">>, second.calls)

\* SafeEval.eval(expr, variables) with the module's registry and flag.
eval(e, variables, functions, allow) ==
  LET first == Restricted(e, Bindings(variables, functions)) IN
  IF first.ok THEN Returned(first.val, <<"restricted">>, first.calls)
  ELSE IF allow
  THEN LET second == python_eval(e, Bindings(variables, functions), first.calls) IN
       IF second.ok
       THEN Returned(second.val, <<"restricted", "fallback">>, second.calls)
       ELSE RaisedValueError(<<"Failed to evaluate expression: ">> \o first.err
                               \o <<" (fallback: ">> \o second.err \o <<")">>,
                             <<"restricted", "fallback">>, second.calls)
  ELSE RaisedValueError(<<"Failed to evaluate expression: ">> \o first.err,
                        <<"restricted">>, first.calls)

\* evaluate_expression that lets the error through whatever strict says.
evaluate_expression_AlwaysRaises(e, row, st, functions, allow) ==
  LET r == eval(e, row, functions, allow) IN
  IF r.kind # "raised" THEN r
  ELSE RaisedValueError(<<"Expression evaluation error: ">> \o r.text,
                        r.attempts, r.calls)

\* evaluate_expression(expr, row_data, strict)
evaluate_expression(e, row, st, functions, allow) ==
  LET r == eval(e, row, functions, allow) IN
  IF r.kind # "raised" THEN r
  ELSE IF st
  THEN RaisedValueError(<<"Expression evaluation error: ">> \o r.text,
                        r.attempts, r.calls)
  ELSE ReturnedText(<<"[Error: ">> \o r.text \o <<"]">>, r.attempts, r.calls)

(***************************************************************************)
(* Calls of the evaluator                                                  *)
(***************************************************************************)
\* The bound on how many operands a comparison chain or an and / or has.
MaxOperands == 3

\* The functions that get registered: two that return a number, one that
\* raises when it is called.
Registrations ==
  {<<"one", Returns(1)>>, <<"two", Returns(2)>>, <<"boom", Raises>>}

\* The rows: no column, a column x, and a column named like a function.
NoRow == <<>>
RowX == [n \in {"x"} |-> VInt(0)]
RowXOne == [n \in {"x", "one"} |-> IF n = "x" THEN VInt(3) ELSE VInt(5)]
Rows == {NoRow, RowX, RowXOne}

\* one(), two(), boom() and x: the operands of the expressions.
Operands == {Call("one", <<>>), Call("two", <<>>), Call("boom", <<>>), Name("x")}

OperandSeqs(lo) == UNION {[1..k -> Operands] : k \in lo..MaxOperands}

\* a op b op c ... with supported operators and with the identity test.
Comparisons ==
  {Compare(vs[1], os, Tail(vs)) :
     vs \in OperandSeqs(2), os \in UNION {[1..k -> {"Lt", "Is"}] : k \in 1..(MaxOperands - 1)}}

ComparisonChains == {c \in Comparisons : Len(c.ops) = Len(c.comparators)}

BoolOps == {BoolOp(op, vs) : op \in {"And", "Or"}, vs \in OperandSeqs(2)}

IfExps == {IfExp(t, b, o) : t \in Operands, b \in Operands, o \in Operands}

\* 1/0, x/x, one()+x, one, -x, not boom(), one(boom()), x is None or two(),
\* the text "1 <", and a lambda.
OtherExpressions ==
  {BinOp("Div", Constant(VInt(1)), Constant(VInt(0))),
   BinOp("Div", Name("x"), Name("x")),
   BinOp("Add", Call("one", <<>>), Name("x")),
   Name("one"),
   Constant(VNone),
   UnaryOp("USub", Name("x")),
   UnaryOp("Not", Call("boom", <<>>)),
   Call("one", <<Call("boom", <<>>)>>),
   BoolOp("Or", <<Compare(Name("x"), <<"Is">>, <<Constant(VNone)>>),
                  Call("two", <<>>)>>),
   SyntaxErrorText,
   LambdaZero}

Expressions == ComparisonChains \cup BoolOps \cup IfExps \cup OtherExpressions

\* set_eval_fallback(allow)
SetEvalFallback(allow) ==
  /\ result = NoResult
  /\ ALLOW_EVAL_FALLBACK' = allow
  /\ UNCHANGED <<CUSTOM_FUNCTIONS, expr, row_data, result, attempts, calls,
                 mapperVars, callVars, sessionVars>>
  /\ UNCHANGED <<templateVars, headerVars>>

\* register_custom_function(name, func)
RegisterCustomFunction(name, func) ==
  /\ result = NoResult
  /\ CUSTOM_FUNCTIONS' =
       [n \in DOMAIN CUSTOM_FUNCTIONS \cup {name} |->
          IF n = name THEN func ELSE CUSTOM_FUNCTIONS[n]]
  /\ UNCHANGED <<ALLOW_EVAL_FALLBACK, expr, row_data, result, attempts, calls,
                 mapperVars, callVars, sessionVars>>
  /\ UNCHANGED <<templateVars, headerVars>>

\* SafeEval().eval(expr, row_data)
Eval ==
  /\ result = NoResult
  /\ \E r \in {eval(expr, row_data, CUSTOM_FUNCTIONS, ALLOW_EVAL_FALLBACK)} :
       /\ result' = [kind |-> r.kind, val |-> r.val, text |-> r.text]
       /\ attempts' = r.attempts
       /\ calls' = r.calls
  /\ UNCHANGED <<CUSTOM_FUNCTIONS, ALLOW_EVAL_FALLBACK, expr, row_data,
                 mapperVars, callVars, sessionVars>>
  /\ UNCHANGED <<templateVars, headerVars>>

\* evaluate_expression(expr, row_data, strict=st)
EvaluateExpression(st) ==
  /\ result = NoResult
  /\ \E r \in {evaluate_expression(expr, row_data, st, CUSTOM_FUNCTIONS,
                                   ALLOW_EVAL_FALLBACK)} :
       /\ result' = [kind |-> r.kind, val |-> r.val, text |-> r.text]
       /\ attempts' = r.attempts
       /\ calls' = r.calls
  /\ strict' = st
  /\ stages' = <<"evaluate_expression">>
  /\ UNCHANGED <<CUSTOM_FUNCTIONS, ALLOW_EVAL_FALLBACK, expr, row_data,
                 mapperVars, query, params, outcome, sessionVars>>
  /\ UNCHANGED <<templateVars, headerVars>>

EvalInit ==
  /\ InitMapper /\ InitCall /\ InitSession
  /\ CUSTOM_FUNCTIONS = <<>>
  /\ ALLOW_EVAL_FALLBACK = FALSE
  /\ expr \in Expressions
  /\ row_data \in Rows
  /\ result = NoResult
  /\ attempts = <<>>
  /\ calls = <<>>
  /\ InitTemplate /\ InitHeader

EvalNext ==
  \/ \E allow \in BOOLEAN : SetEvalFallback(allow)
  \/ \E reg \in Registrations : RegisterCustomFunction(reg[1], reg[2])
  \/ Eval
  \/ EvaluateExpression(FALSE)
  \/ EvaluateExpression(TRUE)

SpecEval == EvalInit /\ [][EvalNext]_vars

\* SafeEval.eval or evaluate_expression was called.
Evaluated == result # NoResult

\* The names that are a column of the row and a registered function.
SharedNames == DOMAIN row_data \cap DOMAIN CUSTOM_FUNCTIONS

(***************************************************************************)
(* C23: a name that is both a column of the row and a registered function  *)
(* evaluates to the row's value: the row shadows the function, under the   *)
(* restricted evaluator and under the fallback.                            *)
(***************************************************************************)
C23_RowShadowsFunction ==
  (Evaluated /\ expr.k = "Name" /\ expr.id \in SharedNames)
    => result.kind = "value" /\ result.val = row_data[expr.id]

\* The restricted evaluation of the call's expression, and Python's own.
FirstAttempt == Restricted(expr, Bindings(row_data, CUSTOM_FUNCTIONS))
SecondAttempt ==
  python_eval(expr, Bindings(row_data, CUSTOM_FUNCTIONS), FirstAttempt.calls)

\* The message m has the pieces of e in it, in a row.
HasMessage(m, e) ==
  \E i \in 0..(Len(m) - Len(e)) : SubSeq(m, i + 1, i + Len(e)) = e

(***************************************************************************)
(* C24: SafeEval.eval runs Python's own evaluator only when the fallback   *)
(* flag is on and the restricted evaluation of the expression has failed,  *)
(* and after it: with the flag off a failure is reported with no second    *)
(* attempt, a restricted evaluation that succeeds is the result and no     *)
(* fallback runs, and when both attempts fail the one error has both       *)
(* messages.                                                               *)
(***************************************************************************)
C24_FallbackOnlyAfterFailure ==
  Evaluated =>
    /\ attempts \in {<<"restricted">>, <<"restricted", "fallback">>}
    /\ (attempts = <<"restricted", "fallback">>)
         <=> (ALLOW_EVAL_FALLBACK /\ ~FirstAttempt.ok)
    /\ FirstAttempt.ok
         => result.kind = "value" /\ result.val = FirstAttempt.val
              /\ calls = FirstAttempt.calls
    /\ (~FirstAttempt.ok /\ ~ALLOW_EVAL_FALLBACK)
         => result.kind # "value" /\ calls = FirstAttempt.calls
              /\ HasMessage(result.text, FirstAttempt.err)
    /\ (~FirstAttempt.ok /\ ALLOW_EVAL_FALLBACK /\ ~SecondAttempt.ok)
         => result.kind # "value"
              /\ HasMessage(result.text,
                            FirstAttempt.err \o <<" (fallback: ">> \o SecondAttempt.err)

\* With the flag on, "x is None or two()" fails in the restricted evaluator
\* and the fallback gives 2.
C24_Witness ==
  /\ Evaluated
  /\ ALLOW_EVAL_FALLBACK
  /\ expr = BoolOp("Or", <<Compare(Name("x"), <<"Is">>, <<Constant(VNone)>>),
                           Call("two", <<>>)>>)
  /\ row_data = RowX
  /\ attempts = <<"restricted", "fallback">>
  /\ result.kind = "value" /\ result.val = VInt(2)
  /\ calls = <<"two">>

\* evaluate_expression was called.
EvaluatedRow == Evaluated /\ stages = <<"evaluate_expression">>

\* The evaluation of the call's expression fails: the restricted evaluator
\* fails and the fallback is off or fails too.
EvaluationFails ==
  ~FirstAttempt.ok /\ (ALLOW_EVAL_FALLBACK => ~SecondAttempt.ok)

(***************************************************************************)
(* C25: evaluate_expression with strict off never raises: when the         *)
(* evaluation fails (a text that is no expression, an unknown name, a      *)
(* function that raises, a division by zero) it returns a text that starts *)
(* with "[Error:"; with strict on the same failure is raised.              *)
(***************************************************************************)
C25_NonStrictNeverRaises ==
  EvaluatedRow =>
    /\ ~strict => result.kind # "raised"
    /\ (~strict /\ EvaluationFails)
         => result.kind = "text" /\ Head(result.text) = "[Error: "
    /\ (strict /\ EvaluationFails) => result.kind = "raised"
    /\ ~EvaluationFails => result.kind = "value"

\* 1/0 with strict off.
C25_Witness ==
  /\ EvaluatedRow
  /\ ~strict
  /\ expr = BinOp("Div", Constant(VInt(1)), Constant(VInt(0)))
  /\ result.kind = "text"
  /\ result.text = <<"[Error: ", "Failed to evaluate expression: ",
                     "division by zero", "]">>

\* The restricted evaluation of the operand e on its own, under the call's
\* bindings.
Alone(e) == eval_node(e, Bindings(row_data, CUSTOM_FUNCTIONS), <<>>)

\* The functions the first k operands of os call, in the order of os.
RECURSIVE CallsOf(_, _)
CallsOf(os, k) ==
  IF k = 0 THEN <<>> ELSE CallsOf(os, k - 1) \o Alone(os[k]).calls

\* The function the operand e calls, if it is a call.
CalledBy(e) == IF e.k = "Call" THEN {e.func} ELSE {}

\* The branch of the conditional that the test selects, and the other one.
ChosenBranch ==
  IF Truthy(Alone(expr.test).val) THEN expr.body ELSE expr.orelse
OtherBranch ==
  IF Truthy(Alone(expr.test).val) THEN expr.orelse ELSE expr.body

(***************************************************************************)
(* C27: a conditional expression evaluates its test and then exactly one   *)
(* branch: the functions called are those of the test followed by those of *)
(* the selected branch, the value is the selected branch's value, and a    *)
(* function that only the other branch calls is never called, whether the  *)
(* test is truthy (the else-branch is skipped) or falsy (the then-branch   *)
(* is skipped).                                                            *)
(***************************************************************************)
C27_ExactlyOneBranch ==
  (Evaluated /\ expr.k = "IfExp" /\ Alone(expr.test).ok) =>
    /\ FirstAttempt.calls = Alone(expr.test).calls \o Alone(ChosenBranch).calls
    /\ Alone(ChosenBranch).ok
         => /\ result.kind = "value"
            /\ result.val = Alone(ChosenBranch).val
            /\ calls = Alone(expr.test).calls \o Alone(ChosenBranch).calls
    /\ (CalledBy(OtherBranch) \cap (CalledBy(expr.test) \cup CalledBy(ChosenBranch)) = {})
         => CalledBy(OtherBranch) \cap Range(calls) = {}

\* "two() if x else boom()" with x = 3 and boom registered: 2, and boom was
\* not called.
C27_Witness ==
  /\ Evaluated
  /\ expr = IfExp(Name("x"), Call("two", <<>>), Call("boom", <<>>))
  /\ row_data = RowXOne
  /\ {"two", "boom"} \subseteq DOMAIN CUSTOM_FUNCTIONS
  /\ result.kind = "value" /\ result.val = VInt(2)
  /\ calls = <<"two">>

\* "boom() if x else one()" with x = 0: the then-branch is skipped.
C27_WitnessFalsy ==
  /\ Evaluated
  /\ expr = IfExp(Name("x"), Call("boom", <<>>), Call("one", <<>>))
  /\ row_data = RowX
  /\ {"one", "boom"} \subseteq DOMAIN CUSTOM_FUNCTIONS
  /\ result.kind = "value" /\ result.val = VInt(1)
  /\ calls = <<"one">>

\* The operands of the comparison chain, and whether all its operators are
\* among the supported ones.
ChainOperands == <<expr.left>> \o expr.comparators
ChainSupported == \A i \in DOMAIN expr.ops : expr.ops[i] \in ComparisonOperators

\* The first k operands of os evaluate.
OperandsOk(os, k) == \A j \in 1..k : Alone(os[j]).ok

\* The i-th pair of the chain compares true.
PairHolds(i) ==
  LET c == ApplyComparison(expr.ops[i], Alone(ChainOperands[i]).val,
                           Alone(ChainOperands[i + 1]).val, <<>>) IN
  c.ok /\ Truthy(c.val)

\* The i-th pair is the first that does not compare true, and compares.
FirstFailingPair(i) ==
  /\ OperandsOk(ChainOperands, i + 1)
  /\ \A j \in 1..(i - 1) : PairHolds(j)
  /\ ApplyComparison(expr.ops[i], Alone(ChainOperands[i]).val,
                     Alone(ChainOperands[i + 1]).val, <<>>).ok
  /\ ~PairHolds(i)

\* Every operand evaluates and every pair compares true.
EveryPairHolds ==
  /\ OperandsOk(ChainOperands, Len(ChainOperands))
  /\ \A j \in DOMAIN expr.ops : PairHolds(j)

(***************************************************************************)
(* C28: a chained comparison a op1 b op2 c is true exactly when every      *)
(* adjacent pair compares true; the operands are evaluated left to right,  *)
(* each at most once, and at the first pair that fails the result is false *)
(* and no later comparator is evaluated.                                   *)
(***************************************************************************)
C28_ChainedComparison ==
  (Evaluated /\ expr.k = "Compare" /\ ChainSupported) =>
    /\ EveryPairHolds
         => /\ result.kind = "value" /\ result.val = VBool(TRUE)
            /\ calls = CallsOf(ChainOperands, Len(ChainOperands))
    /\ \A i \in DOMAIN expr.ops :
         FirstFailingPair(i)
           => /\ result.kind = "value" /\ result.val = VBool(FALSE)
              /\ calls = CallsOf(ChainOperands, i + 1)
    /\ (result.kind = "value" /\ result.val = VBool(TRUE)) => EveryPairHolds

\* "two() < one() < boom()": false after the first pair, and boom was not
\* called.
C28_Witness ==
  /\ Evaluated
  /\ expr = Compare(Call("two", <<>>), <<"Lt", "Lt">>,
                    <<Call("one", <<>>), Call("boom", <<>>)>>)
  /\ "boom" \in DOMAIN CUSTOM_FUNCTIONS
  /\ result.kind = "value" /\ result.val = VBool(FALSE)
  /\ calls = <<"two", "one">>

\* "one() < two() < x" with x = 3: true, every operand evaluated once.
C28_WitnessTrue ==
  /\ Evaluated
  /\ expr = Compare(Call("one", <<>>), <<"Lt", "Lt">>,
                    <<Call("two", <<>>), Name("x")>>)
  /\ row_data = RowXOne
  /\ result.kind = "value" /\ result.val = VBool(TRUE)
  /\ calls = <<"one", "two">>

\* The i-th operand of the and / or is the first that decides it: a falsy
\* operand of an and, a truthy operand of an or.
FirstDeciding(i) ==
  /\ OperandsOk(expr.values, i)
  /\ \A j \in 1..i :
       (j = i) <=> ((expr.op = "And") # Truthy(Alone(expr.values[j]).val))

\* Every operand evaluates and none decides.
NoneDecides ==
  /\ OperandsOk(expr.values, Len(expr.values))
  /\ \A j \in DOMAIN expr.values :
       (expr.op = "And") = Truthy(Alone(expr.values[j]).val)

(***************************************************************************)
(* C29, as the restricted evaluator has it: an and / or that the           *)
(* restricted evaluator evaluates yields a boolean, never an operand's own *)
(* value: and is false at the first falsy operand and the operands after   *)
(* it are not evaluated, true otherwise; or is true at the first truthy    *)
(* operand and the operands after it are not evaluated, false otherwise.   *)
(***************************************************************************)
C29_BooleanUnderRestricted ==
  (Evaluated /\ expr.k = "BoolOp") =>
    /\ (attempts = <<"restricted">> /\ result.kind = "value")
         => result.val \in {VBool(TRUE), VBool(FALSE)}
    /\ \A i \in DOMAIN expr.values :
         FirstDeciding(i)
           => /\ result.kind = "value" /\ result.val = VBool(expr.op # "And")
              /\ calls = CallsOf(expr.values, i)
    /\ NoneDecides
         => /\ result.kind = "value" /\ result.val = VBool(expr.op = "And")
            /\ calls = CallsOf(expr.values, Len(expr.values))

(***************************************************************************)
(* C29, as stated: an and / or expression always yields a boolean, never   *)
(* an operand's own value.                                                 *)
(***************************************************************************)
C29_AlwaysBoolean ==
  (Evaluated /\ expr.k = "BoolOp" /\ result.kind = "value")
    => result.val \in {VBool(TRUE), VBool(FALSE)}

\* "one() or boom()": true, not 1, and boom was not called.
C29_Witness ==
  /\ Evaluated
  /\ expr = BoolOp("Or", <<Call("one", <<>>), Call("boom", <<>>)>>)
  /\ "boom" \in DOMAIN CUSTOM_FUNCTIONS
  /\ attempts = <<"restricted">>
  /\ result.kind = "value" /\ result.val = VBool(TRUE)
  /\ calls = <<"one">>

\* "x and boom()" with x = 0: false, not 0, and boom was not called.
C29_WitnessAnd ==
  /\ Evaluated
  /\ expr = BoolOp("And", <<Name("x"), Call("boom", <<>>)>>)
  /\ row_data = RowX
  /\ "boom" \in DOMAIN CUSTOM_FUNCTIONS
  /\ result.kind = "value" /\ result.val = VBool(FALSE)
  /\ calls = <<>>

(***************************************************************************)
(* apply_template_transform (core/template_engine.py)                      *)
(*                                                                         *)
(* The template is what extract_template_mapping returns for it: the       *)
(* columns in order, each with the tree of its expression, or EmptyText    *)
(* for an expression that is the empty text.                               *)
(***************************************************************************)
EmptyText == [k |-> "Empty"]

\* d with the key key set to v.
SetItem(d, key, v) ==
  [n \in DOMAIN d \cup {key} |-> IF n = key THEN v ELSE d[n]]

\* errors.setdefault(col, []).append(rec)
AppendError(errs, col, rec) ==
  SetItem(errs, col, IF col \in DOMAIN errs THEN Append(errs[col], rec) ELSE <<rec>>)

\* A cell of the result: a value or a text.
Cell(r) == [kind |-> r.kind, val |-> r.val, text |-> r.text]

\* The one element of a set of one element.
TheOne(S) == CHOOSE v \in S : TRUE

\* Lines 99-106 for the column col with the expression e, r being what
\* evaluate_expression gave for it; target is the row built so far and errs
\* the error dict. raised says that line 104 raised.
TransformCell(r, col, e, idx, target, errs, fail) ==
  IF r.kind # "raised"
  THEN [raised |-> FALSE, target |-> SetItem(target, col, Cell(r)), errors |-> errs]
  ELSE [raised |-> fail,
        target |-> IF fail THEN target
                   ELSE SetItem(target, col,
                                Cell(ReturnedText(<<"[Error: ">> \o r.text \o <<"]">>,
                                                  <<>>, <<>>))),
        errors |-> AppendError(errs, col, [row |-> idx + 1, expression |-> e,
                                           error |-> r.text])]

\* Lines 92-106 for the columns cols of the row at index idx.
RECURSIVE TransformRow(_, _, _, _, _, _, _, _)
TransformRow(cols, row, idx, target, errs, fail, functions, allow) ==
  IF cols = <<>> THEN [raised |-> FALSE, target |-> target, errors |-> errs]
  ELSE IF Head(cols)[2].k = "Empty"
       THEN TransformRow(Tail(cols), row, idx, target, errs, fail, functions, allow)
  ELSE TheOne({IF c.raised THEN c
               ELSE TransformRow(Tail(cols), row, idx, c.target, c.errors, fail,
                                 functions, allow) :
               c \in {TransformCell(r, Head(cols)[1], Head(cols)[2], idx, target,
                                    errs, fail) :
                      r \in {evaluate_expression(Head(cols)[2], row, FALSE,
                                                 functions, allow)}}})

\* Lines 88-108 from the row at index idx on; rows are the rows built so far.
RECURSIVE TransformRows(_, _, _, _, _, _, _, _)
TransformRows(rows_in, cols, idx, rows, errs, fail, functions, allow) ==
  IF idx >= Len(rows_in) THEN [raised |-> FALSE, rows |-> rows, errors |-> errs]
  ELSE TheOne({IF t.raised THEN [raised |-> TRUE, rows |-> rows, errors |-> t.errors]
               ELSE TransformRows(rows_in, cols, idx + 1, Append(rows, t.target),
                                  t.errors, fail, functions, allow) :
               t \in {TransformRow(cols, rows_in[idx + 1], idx, <<>>, errs, fail,
                                   functions, allow)}})

\* The error dict of line 118.
TemplateError ==
  [n \in {"template_error"} |-> <<[row |-> 0, expression |-> EmptyText,
                                   error |-> <<"template">>]>>]

\* apply_template_transform(data, template_path, fail_on_error); loads says
\* whether extract_template_mapping can read the template.
apply_template_transform(rows_in, cols, fail, loads, functions, allow) ==
  IF ~loads
  THEN IF fail THEN [raised |-> TRUE, rows |-> <<>>, errors |-> <<>>]
       ELSE [raised |-> FALSE, rows |-> rows_in, errors |-> TemplateError]
  ELSE TransformRows(rows_in, cols, 0, <<>>, <<>>, fail, functions, allow)

\* The bounds on the rows of the data and on the columns of the template.
MaxRows == 2
MaxColumns == 2

\* x, 1/0, boom(), one() and the empty text.
ColumnExpressions ==
  {Name("x"), BinOp("Div", Constant(VInt(1)), Constant(VInt(0))),
   Call("boom", <<>>), Call("one", <<>>), EmptyText}

ColumnNames == <<"c1", "c2", "c3">>

TemplateOf(es) == [i \in 1..Len(es) |-> <<ColumnNames[i], es[i]>>]

Templates ==
  {TemplateOf(es) : es \in UNION {[1..k -> ColumnExpressions] : k \in 1..MaxColumns}}

DataFrames == UNION {[1..k -> {NoRow, RowX}] : k \in 1..MaxRows}

\* apply_template_transform(data, template_path, fail_on_error=fail)
ApplyTemplateTransform(fail, loads) ==
  /\ result = NoResult
  /\ \E r \in {apply_template_transform(data, expressions, fail, loads,
                                        CUSTOM_FUNCTIONS, ALLOW_EVAL_FALLBACK)} :
       /\ result' = [kind |-> IF r.raised THEN "raised" ELSE "returned",
                     val |-> VNone, text |-> <<>>]
       /\ result_df' = r.rows
       /\ errors' = IF r.raised THEN <<>> ELSE r.errors
  /\ fail_on_error' = fail
  /\ stages' = <<IF loads THEN "apply_template_transform" ELSE "template_error">>
  /\ UNCHANGED <<CUSTOM_FUNCTIONS, ALLOW_EVAL_FALLBACK, expr, row_data, attempts,
                 calls, data, expressions, mapperVars, query, strict, params,
                 outcome, sessionVars, headerVars>>

TemplateInit ==
  /\ InitMapper /\ InitCall /\ InitSession /\ InitEval /\ InitHeader
  /\ data \in DataFrames
  /\ expressions \in Templates
  /\ fail_on_error = FALSE
  /\ result_df = <<>>
  /\ errors = <<>>

TemplateNext ==
  \/ \E allow \in BOOLEAN : SetEvalFallback(allow)
  \/ \E reg \in Registrations : RegisterCustomFunction(reg[1], reg[2])
  \/ \E fail \in BOOLEAN, loads \in BOOLEAN : ApplyTemplateTransform(fail, loads)

SpecTemplate == TemplateInit /\ [][TemplateNext]_vars

\* The transform ran with a template that could be read.
Transformed == result # NoResult /\ stages = <<"apply_template_transform">>

\* The expression e fails on the row.
FailsOn(e, row) ==
  LET first == Restricted(e, Bindings(row, CUSTOM_FUNCTIONS)) IN
  /\ ~first.ok
  /\ ALLOW_EVAL_FALLBACK
       => ~python_eval(e, Bindings(row, CUSTOM_FUNCTIONS), first.calls).ok

\* The rows and columns, as <<row number, column index>>, whose expression
\* fails.
Failures ==
  {rc \in (1..Len(data)) \X (1..Len(expressions)) :
     /\ expressions[rc[2]][2].k # "Empty"
     /\ FailsOn(expressions[rc[2]][2], data[rc[1]])}

(***************************************************************************)
(* C26: apply_template_transform gives an error record {row, expression,   *)
(* error} under the column's key for every row and column whose expression *)
(* fails; with fail_on_error on, the first failure makes it raise; a run   *)
(* in which an expression failed never returns an empty error dict.        *)
(***************************************************************************)
C26_FailuresAreRecorded ==
  Transformed =>
    /\ (fail_on_error /\ Failures # {}) => result.kind = "raised"
    /\ (result.kind = "returned" /\ Failures # {}) => DOMAIN errors # {}
    /\ result.kind = "returned" =>
         \A rc \in Failures :
           /\ expressions[rc[2]][1] \in DOMAIN errors
           /\ \E i \in 1..Len(errors[expressions[rc[2]][1]]) :
                LET rec == errors[expressions[rc[2]][1]][i] IN
                rec.row = rc[1] /\ rec.expression = expressions[rc[2]][2]

(***************************************************************************)
(* Header rows in the REPL session (cli/repl.py)                           *)
(*                                                                         *)
(* A workbook is the sequence of its sheets, each with its name and its    *)
(* rows of cells; a cell is a text. workbook.parse(sheet, header=h-1)      *)
(* takes the cells of row h as the column names and the rows after it as   *)
(* the data. A DataFrame is kept as the header row it was parsed with, its *)
(* column names and the number of its data rows. The commands give \hdr a  *)
(* row of the sheet, so parse does not fail.                               *)
(***************************************************************************)
\* Session.default_header_row (line 112).
default_header_row == 1

\* The rows _infer_header_row samples (line 187).
SampleRows == 10

\* The rows of the sheet in the workbook.
RowsOf(wb, sheet_name) ==
  wb[CHOOSE i \in 1..Len(wb) : wb[i].name = sheet_name].rows

\* str.strip() of a cell.
RECURSIVE RStrip(_)
RStrip(s) ==
  IF s # <<>> /\ s[Len(s)] \in Whitespace THEN RStrip(SubSeq(s, 1, Len(s) - 1))
  ELSE s
Strip(s) == RStrip(LStrip(s))

\* Lines 222-232 and 377-387: trim each name and number a repeated one
\* base_1, base_2, ...
RECURSIVE NormalizeColumns(_, _, _)
NormalizeColumns(cols, i, out) ==
  IF i > Len(cols) THEN out
  ELSE LET base == Strip(cols[i])
           seen == Cardinality({j \in 1..(i - 1) : Strip(cols[j]) = base}) IN
       NormalizeColumns(cols, i + 1,
                        Append(out, IF seen = 0 THEN base
                                    ELSE base \o <<"_", Digits[seen + 1]>>))

\* workbook.parse(sheet, header=header_row-1) with the headers normalised.
Frame(wb, sheet_name, header_row) ==
  [header_row |-> header_row,
   columns |-> NormalizeColumns(RowsOf(wb, sheet_name)[header_row], 1, <<>>),
   rows |-> Len(RowsOf(wb, sheet_name)) - header_row]

\* The cell is a str with a letter in it.
HasLetter(cell) == \E i \in 1..Len(cell) : cell[i] \in AsciiLetter

\* The score of a row in _infer_header_row.
Score(row) == Cardinality({i \in 1..Len(row) : HasLetter(row[i])})

\* _infer_header_row: the first of the sampled rows with the highest score,
\* 1 for a sheet without rows.
infer_header_row(wb, sheet_name) ==
  LET rows == RowsOf(wb, sheet_name)
      n == IF Len(rows) < SampleRows THEN Len(rows) ELSE SampleRows IN
  IF n = 0 THEN 1
  ELSE CHOOSE r \in 1..n :
         /\ \A q \in 1..n : Score(rows[q]) <= Score(rows[r])
         /\ \A q \in 1..(r - 1) : Score(rows[q]) < Score(rows[r])

\* header_overrides.get(real, sheet_header_row.get(real, default_header_row))
HeaderRowFor(s, real) ==
  IF real \in DOMAIN s.header_overrides THEN s.header_overrides[real]
  ELSE IF real \in DOMAIN s.sheet_header_row THEN s.sheet_header_row[real]
  ELSE default_header_row

\* The session with its header state.
HeaderSession ==
  [workbook |-> workbook, all_sheets |-> all_sheets, sheet_data |-> sheet_data,
   sheet_frames |-> sheet_frames, sheet_columns |-> sheet_columns,
   header_overrides |-> header_overrides, sheet_header_row |-> sheet_header_row,
   orig_to_alias |-> orig_to_alias]

\* Session._ensure_header: the session afterwards and whether it raised.
ensure_header(s, sheet_name) ==
  IF sheet_name \in DOMAIN s.sheet_columns THEN [s |-> s, raised |-> FALSE]
  ELSE IF sheet_name \notin Range(s.all_sheets) THEN [s |-> s, raised |-> TRUE]
  ELSE
    LET inferred ==
          IF sheet_name \notin DOMAIN s.header_overrides
               /\ sheet_name \notin DOMAIN s.sheet_header_row
          THEN [s EXCEPT !.sheet_header_row =
                  SetItem(@, sheet_name, infer_header_row(s.workbook, sheet_name))]
          ELSE s IN
    IF s.workbook = <<>> THEN [s |-> inferred, raised |-> FALSE]
    ELSE [s |-> [inferred EXCEPT !.sheet_columns =
                   SetItem(@, sheet_name,
                           Frame(s.workbook, sheet_name,
                                 HeaderRowFor(inferred, sheet_name)).columns)],
          raised |-> FALSE]

\* The keys of a dict after del d[key] and d[key] = v: key moves to the end.
MoveToEnd(keys, key) == SelectSeq(keys, LAMBDA k : k # key) \o <<key>>

\* Session.open_sheet(sheet_name, force_reload) with the header rows: the
\* session afterwards and whether it raised.
load_sheet(s, sheet_name, force_reload) ==
  IF s.workbook = <<>> THEN [s |-> s, raised |-> TRUE]
  ELSE
    LET norm == normalize_sheet(s.all_sheets, sheet_name)
        real == IF norm = None THEN sheet_name ELSE norm
        e == ensure_header(s, real) IN
    IF e.raised THEN e
    ELSE IF real \in DOMAIN e.s.sheet_frames /\ ~force_reload THEN e
    ELSE
      LET df == Frame(e.s.workbook, real, HeaderRowFor(e.s, real)) IN
      [s |-> [e.s EXCEPT !.sheet_data = MoveToEnd(@, real),
                         !.sheet_frames = SetItem(@, real, df),
                         !.sheet_columns = SetItem(@, real, df.columns),
                         !.orig_to_alias = alias_for(@, real).o2a],
       raised |-> FALSE]

\* The hdr command, lines 867-879: the session afterwards.
hdr(s, sheet, r) ==
  IF r < 1 THEN s
  ELSE
    LET norm == normalize_sheet(s.all_sheets, sheet)
        real == IF norm = None THEN sheet ELSE norm
        set == [s EXCEPT !.header_overrides = SetItem(@, real, r)] IN
    IF real \in DOMAIN s.sheet_frames THEN load_sheet(set, real, FALSE).s
    ELSE set

\* The session's variables after a command.
SessionBecomes(s) ==
  /\ workbook' = s.workbook
  /\ all_sheets' = s.all_sheets
  /\ sheet_data' = s.sheet_data
  /\ sheet_frames' = s.sheet_frames
  /\ sheet_columns' = s.sheet_columns
  /\ header_overrides' = s.header_overrides
  /\ sheet_header_row' = s.sheet_header_row
  /\ orig_to_alias' = s.orig_to_alias

\* What the header commands leave alone.
HeaderUnchanged ==
  UNCHANGED <<engine, mapperVars, callVars, evalVars, templateVars>>

\* \load <file>: load_workbook on the file with the sheets wb.
LoadFile(wb) ==
  /\ SessionBecomes([workbook |-> wb,
                     all_sheets |-> [i \in 1..Len(wb) |-> wb[i].name],
                     sheet_data |-> <<>>, sheet_frames |-> <<>>,
                     sheet_columns |-> <<>>, header_overrides |-> <<>>,
                     sheet_header_row |-> <<>>,
                     orig_to_alias |->
                       AliasAll([i \in 1..Len(wb) |-> wb[i].name], <<>>)])
  /\ command' = <<"load">>
  /\ HeaderUnchanged

\* \open <sheet>
Open(n) ==
  /\ SessionBecomes(load_sheet(HeaderSession, n, FALSE).s)
  /\ command' = <<"open", n>>
  /\ HeaderUnchanged

\* \reload <sheet>
Reload(n) ==
  /\ SessionBecomes(load_sheet(HeaderSession, n, TRUE).s)
  /\ command' = <<"reload", n>>
  /\ HeaderUnchanged

\* \d <sheet>: describe reads the header and loads no data.
Describe(n) ==
  /\ LET norm == normalize_sheet(all_sheets, n) IN
     SessionBecomes(ensure_header(HeaderSession, IF norm = None THEN n ELSE norm).s)
  /\ command' = <<"d", n>>
  /\ HeaderUnchanged

\* The rows \hdr is given for the name: 0 and the rows of the sheet, 0 and 1
\* for a name that is no sheet.
HeaderRows(n) ==
  LET norm == normalize_sheet(all_sheets, n) IN
  IF norm = None THEN 0..1 ELSE 0..Len(RowsOf(workbook, norm))

\* \hdr <sheet> <row>
Hdr(sheet, r) ==
  /\ r \in HeaderRows(sheet)
  /\ SessionBecomes(hdr(HeaderSession, sheet, r))
  /\ command' = <<"hdr", sheet, r>>
  /\ HeaderUnchanged

\* \clear
ClearData ==
  /\ sheet_data' = <<>>
  /\ sheet_frames' = <<>>
  /\ command' = <<"clear">>
  /\ UNCHANGED <<workbook, all_sheets, sheet_columns, header_overrides,
                 sheet_header_row, orig_to_alias>>
  /\ HeaderUnchanged

\* The sheets of the files: S has letters in rows 1 and 2 and numbers in
\* row 3, and two cells of its row 2 have the same name once trimmed; T has
\* numbers in row 1 and letters in row 2.
CellA == <<"a">>
CellB == <<"b">>
CellSpaceA == <<" ", "a">>
Cell1 == <<"1">>
Cell2 == <<"2">>
ContentS ==
  [name |-> SheetS, rows |-> <<<<CellA, CellB>>, <<CellSpaceA, CellA>>, <<Cell1, Cell2>>>>]
ContentT ==
  [name |-> SheetT, rows |-> <<<<Cell1, Cell2>>, <<CellA, CellB>>>>]
Files == {<<ContentS>>, <<ContentS, ContentT>>}

\* The names the commands are given: a sheet, a sheet in the other letter
\* case, another sheet, no sheet.
HeaderNames == {SheetS, SheetLowS, SheetT, <<"n", "o">>}

\* 0 and the rows of the longest sheet.
AllHeaderRows == 0..Len(ContentS.rows)

HeaderInit == InitMapper /\ InitCall /\ InitSession /\ InitOther

HeaderNext ==
  \/ \E wb \in Files : LoadFile(wb)
  \/ \E n \in HeaderNames : Open(n)
  \/ \E n \in HeaderNames : Reload(n)
  \/ \E n \in HeaderNames : Describe(n)
  \/ \E n \in HeaderNames, r \in AllHeaderRows : Hdr(n, r)
  \/ ClearData

SpecHeader == HeaderInit /\ [][HeaderNext]_vars

\* The sheet the last command named, as the session knows it.
CommandSheet ==
  LET norm == normalize_sheet(all_sheets, command[2]) IN
  IF norm = None THEN command[2] ELSE norm

\* The last command was \hdr with a positive row for a sheet that is loaded.
HdrOnLoadedSheet ==
  /\ Len(command) = 3
  /\ command[1] = "hdr"
  /\ command[3] >= 1
  /\ CommandSheet \in DOMAIN sheet_frames

(***************************************************************************)
(* C30: after \hdr <sheet> <row> for a sheet whose data is loaded, the     *)
(* override is recorded and the sheet's stored data and column list are    *)
(* those parsed with the new header row, with no \reload in between.       *)
(***************************************************************************)
C30_HdrReloadsLoadedSheet ==
  HdrOnLoadedSheet =>
    /\ header_overrides[CommandSheet] = command[3]
    /\ sheet_frames[CommandSheet] = Frame(workbook, CommandSheet, command[3])
    /\ sheet_columns[CommandSheet]
         = Frame(workbook, CommandSheet, command[3]).columns
====
